---- MODULE Spec2Model ----
(***************************************************************************)
(* Billing service: webhook reconciliation (Stripe, Paddle), the upgrade   *)
(* action, immediate cancellation with refund, and the proration           *)
(* arithmetic, modelled from app/api/billing_routes.py,                    *)
(* app/api/paddle_webhook_routes.py, app/utils/stripe_client.py and        *)
(* app/db/models.py.                                                       *)
(*                                                                         *)
(* Conventions.  A SQL NULL / Python None is the string "NULL" for ids and *)
(* strings and NoInt for integers.  A local subscription row is keyed by   *)
(* its external subscription id: the unique constraints of models.py make  *)
(* the external id and the serial primary key one-to-one, so the external  *)
(* id also stands for subscriptions.id.  Columns that a raw INSERT leaves  *)
(* out take the column default declared in models.py.                      *)
(***************************************************************************)
EXTENDS Bags, FiniteSets, Integers, Sequences, TLC

VARIABLES
    db,          \* the relational store: one field per table
    stripe,      \* the Stripe side: subscriptions, refunds, calls received
    deliveries,  \* webhook deliveries in flight: position, event, response
    upgrade,     \* the upgrade request in flight (PUT /subscription)
    cancels,     \* immediate-cancel requests in flight (POST /subscription/cancel)
    now,         \* the clock read by datetime.utcnow()
    calc,        \* inputs and result of one _calculate_prorated_amount call
    h_confirmed, \* history: the plan stored on the subscription when a Stripe
                 \* webhook last completed its reconcile block ("NULL": none yet)
    checkouts,   \* create-checkout requests in flight and their responses
    skeleton,    \* handlers racing to create the row of one external
                 \* subscription id, statement by statement
    downgrades,  \* downgrade requests in flight (PUT /subscription)
    verification, \* inputs and result of one verify_paddle_signature call
    taxed        \* inputs and result of one calculate_tax call

vars == <<db, stripe, deliveries, upgrade, cancels, now, calc, h_confirmed, checkouts,
         skeleton, downgrades, verification, taxed>>

NoInt == 0 - 1

-----------------------------------------------------------------------------
(* Bounds of the model *)

\* usage_counters.used is incremented by the metering services up to this value
MaxUsed == 1
\* the clock runs from 0 to MaxTime (whole time units)
MaxTime == 3
\* the proration harness draws period bounds and the clock from 0..MaxClock
MaxClock == 10
\* webhook deliveries handled at the same time
MaxDeliveries == 2
\* immediate-cancel requests made in one run
MaxCancels == 2

-----------------------------------------------------------------------------
(* IEEE-754 double arithmetic, as used by                                   *)
(*   int(amount_paid_cents * (remaining_seconds / total_seconds))           *)
(* A double is [m |-> bits (most significant first), e |-> exponent] with   *)
(* value m * 2^e; MantissaBits is the precision of a Python float.          *)

MantissaBits == 53

RECURSIVE NatToBits(_)
NatToBits(n) == IF n = 0 THEN << >> ELSE Append(NatToBits(n \div 2), n % 2)

RECURSIVE BitsToNat(_)
BitsToNat(b) ==
    IF b = << >> THEN 0
    ELSE 2 * BitsToNat(SubSeq(b, 1, Len(b) - 1)) + b[Len(b)]

RECURSIVE IncBits(_)
IncBits(b) ==
    IF b = << >> THEN <<1>>
    ELSE IF b[Len(b)] = 0 THEN [b EXCEPT ![Len(b)] = 1]
    ELSE Append(IncBits(SubSeq(b, 1, Len(b) - 1)), 0)

RECURSIVE HasOne(_)
HasOne(b) == b # << >> /\ (Head(b) = 1 \/ HasOne(Tail(b)))

\* round-to-nearest-even of the bit string b * 2^e to MantissaBits bits;
\* sticky says that non-zero bits were already dropped below b
RoundBits(b, e, sticky) ==
    IF Len(b) <= MantissaBits THEN [m |-> b, e |-> e]
    ELSE LET keep == SubSeq(b, 1, MantissaBits)
             rest == SubSeq(b, MantissaBits + 1, Len(b))
             half == rest[1] = 1
             more == HasOne(Tail(rest)) \/ sticky
             up   == half /\ (more \/ keep[MantissaBits] = 1)
             r    == IF up THEN IncBits(keep) ELSE keep
             e2   == e + Len(rest)
         IN IF Len(r) > MantissaBits
            THEN [m |-> SubSeq(r, 1, MantissaBits), e |-> e2 + 1]
            ELSE [m |-> r, e |-> e2]

\* binary long division: the next `need` significant quotient bits of rem/den
RECURSIVE FracBits(_, _, _, _)
FracBits(rem, den, acc, need) ==
    IF need = 0 THEN [bits |-> acc, rem |-> rem]
    ELSE LET r2 == 2 * rem
             bit == IF r2 >= den THEN 1 ELSE 0
             started == acc # << >> \/ bit = 1
         IN FracBits(r2 - bit * den, den,
                     IF started THEN Append(acc, bit) ELSE acc,
                     IF started THEN need - 1 ELSE need)

RECURSIVE LeadingZeros(_, _)
LeadingZeros(rem, den) ==
    IF 2 * rem >= den THEN 0 ELSE 1 + LeadingZeros(2 * rem, den)

\* the double nearest to num/den, for integers num > 0 and den > 0
FloatDiv(num, den) ==
    LET ip   == NatToBits(num \div den)
        rem0 == num % den
    IN IF rem0 = 0 THEN RoundBits(ip, 0, FALSE)
       ELSE LET need  == IF Len(ip) > MantissaBits + 1 THEN 0
                         ELSE MantissaBits + 1 - Len(ip)
                lz    == IF ip = << >> THEN LeadingZeros(rem0, den) ELSE 0
                fr    == FracBits(rem0, den, ip, need)
                nfrac == IF ip = << >> THEN lz + need ELSE need
            IN RoundBits(fr.bits, 0 - nfrac, fr.rem # 0)

\* the bit string b times the small integer k: bit i downwards, carry c
RECURSIVE MulBitsFrom(_, _, _, _, _)
MulBitsFrom(b, k, i, c, acc) ==
    IF i = 0 THEN NatToBits(c) \o acc
    ELSE LET v  == k * b[i] + c
             a2 == <<v % 2>> \o acc
         IN IF Len(a2) > 0 THEN MulBitsFrom(b, k, i - 1, v \div 2, a2) ELSE << >>

\* the double nearest to k * f, for an integer k > 0
FloatMulInt(k, f) == RoundBits(MulBitsFrom(f.m, k, Len(f.m), 0, << >>), f.e, FALSE)

\* int(f): truncation towards zero of a non-negative double
FloatTrunc(f) ==
    IF f.e >= 0 THEN BitsToNat(f.m) * (2 ^ f.e)
    ELSE IF Len(f.m) + f.e <= 0 THEN 0
    ELSE BitsToNat(SubSeq(f.m, 1, Len(f.m) + f.e))

Min(a, b) == IF a < b THEN a ELSE b
Max(a, b) == IF a > b THEN a ELSE b

-----------------------------------------------------------------------------
(* _calculate_prorated_amount (billing_routes.py 261-275).  Times are whole *)
(* time units, so total_seconds() and the two differences are exact.        *)

\* the same computation with the elapsed time in place of the remaining time
ProratedElapsed(amount_paid_cents, period_start, period_end, utcnow) ==
    IF amount_paid_cents = NoInt \/ amount_paid_cents = 0
       \/ period_start = NoInt \/ period_end = NoInt THEN 0
    ELSE IF period_end - period_start <= 0 THEN 0
    ELSE IF utcnow - period_start <= 0 THEN 0
    ELSE Min(Max(FloatTrunc(FloatMulInt(amount_paid_cents,
                 FloatDiv(utcnow - period_start, period_end - period_start))), 0),
             amount_paid_cents)

_calculate_prorated_amount(amount_paid_cents, period_start, period_end, utcnow) ==
    IF amount_paid_cents = NoInt \/ amount_paid_cents = 0
       \/ period_start = NoInt \/ period_end = NoInt THEN 0
    ELSE LET total_seconds == period_end - period_start
             remaining_seconds == period_end - utcnow
         IN IF total_seconds <= 0 THEN 0
            ELSE IF remaining_seconds <= 0 THEN 0
            ELSE Min(Max(FloatTrunc(FloatMulInt(amount_paid_cents,
                         FloatDiv(remaining_seconds, total_seconds))), 0),
                     amount_paid_cents)

-----------------------------------------------------------------------------
(* Static tables: users and subscription_plans are read, never written.     *)

\* users.organization_id (SELECT organization_id FROM users WHERE id=:uid)
UserOrg(uid) == IF uid = "u1" THEN "org1" ELSE "NULL"

Orgs == {"org1"}
UsageKeys == {"sbom_upload", "project_scan"}

\* subscription_plans: price ids, the two limits compared on upgrade, and
\* is_active (p4 has been withdrawn)
SubscriptionPlan ==
    [p1 |-> [stripe_price_id_monthly |-> "price_1m", stripe_price_id_yearly |-> "price_1y",
             sbom_limit |-> 10, project_scan_limit |-> 10, is_active |-> TRUE,
             monthly_price_cents |-> 1000, annual_price_cents |-> 10000],
     p2 |-> [stripe_price_id_monthly |-> "price_2m", stripe_price_id_yearly |-> "price_2y",
             sbom_limit |-> 20, project_scan_limit |-> 10, is_active |-> TRUE,
             monthly_price_cents |-> 2000, annual_price_cents |-> 20000],
     p3 |-> [stripe_price_id_monthly |-> "price_3m", stripe_price_id_yearly |-> "price_3y",
             sbom_limit |-> 5, project_scan_limit |-> 20, is_active |-> TRUE,
             monthly_price_cents |-> 3000, annual_price_cents |-> 30000],
     p4 |-> [stripe_price_id_monthly |-> "price_4m", stripe_price_id_yearly |-> "price_4y",
             sbom_limit |-> 10, project_scan_limit |-> 10, is_active |-> FALSE,
             monthly_price_cents |-> 1000, annual_price_cents |-> 10000]]

PlanIds == DOMAIN SubscriptionPlan

\* a rate as Decimal(str(rate)) holds it: digits * 10^-exponent
Rate(digits, exponent) == [digits |-> digits, exponent |-> exponent]

\* core/config.py 51: TAX_DEFAULT_RATE, "0.02" unless configured
TAX_DEFAULT_RATE == Rate(2, 2)

\* a quantize that drops the fraction
QuantizeDown(numerator, denominator) == numerator \div denominator
\* quantize(Decimal("1"), rounding=ROUND_HALF_UP) of numerator / denominator,
\* neither negative: the integer part, one more from a fraction of one half on
QuantizeHalfUp(numerator, denominator) ==
    LET whole == numerator \div denominator
        rest == numerator % denominator
    IN  IF 2 * rest >= denominator THEN whole + 1 ELSE whole

\* services/tax_service.py 20-44
calculate_tax(base_amount_cents, rate) ==
    LET tax_cents == QuantizeHalfUp(base_amount_cents * rate.digits, 10 ^ rate.exponent)
    IN  [subtotal_cents |-> base_amount_cents, tax_cents |-> tax_cents,
         total_cents |-> base_amount_cents + tax_cents]

\* lines 625-627
PlanPrice(plan_id, interval) ==
    IF interval = "monthly" THEN SubscriptionPlan[plan_id].monthly_price_cents
    ELSE SubscriptionPlan[plan_id].annual_price_cents

\* SELECT id ... WHERE stripe_price_id_monthly=:pid OR stripe_price_id_yearly=:pid
PlanIdByPrice(pid) ==
    LET hit == {p \in PlanIds : SubscriptionPlan[p].stripe_price_id_monthly = pid
                                \/ SubscriptionPlan[p].stripe_price_id_yearly = pid}
    IN IF hit = {} THEN "NULL" ELSE CHOOSE p \in hit : TRUE

\* SELECT sbom_limit, project_scan_limit FROM subscription_plans WHERE id=:pid
PlanLimit(pid, key) ==
    IF pid \notin PlanIds THEN NoInt
    ELSE IF key = "sbom_upload" THEN SubscriptionPlan[pid].sbom_limit
    ELSE SubscriptionPlan[pid].project_scan_limit

-----------------------------------------------------------------------------
(* Rows and table operations                                                *)

\* f with key k set to v, k added to its domain when missing
Put(f, k, v) == [x \in DOMAIN f \cup {k} |-> IF x = k THEN v ELSE f[x]]

\* a subscriptions row; columns left out of a raw INSERT take the defaults
\* declared by class Subscription
SubscriptionRow(uid, plan, status, interval, provider) ==
    [created_by |-> uid, last_updated_by |-> "NULL",
     billing_contact_user_id |-> uid, plan_id |-> plan,
     stripe_customer_id |-> "NULL", paddle_customer_id |-> "NULL",
     provider |-> provider, status |-> status, interval |-> interval,
     current_period_start |-> NoInt, current_period_end |-> NoInt,
     cancel_at_period_end |-> FALSE, trial_end |-> NoInt]

\* the column stripe_subscription_id of the row keyed sid
StripeSubscriptionId(subs, sid) == IF subs[sid].provider = "stripe" THEN sid ELSE "NULL"

\* the same INSERT ending in ON CONFLICT (stripe_subscription_id) DO UPDATE
ReplaceStripeSkeleton(subs, uid, cust, sid) ==
    Put(subs, sid, [SubscriptionRow(uid, "NULL", "active", "monthly", "stripe")
                      EXCEPT !.stripe_customer_id = cust])

\* INSERT INTO subscriptions (...) VALUES (:uid, :uid, :cust, :sid, 'active', ...)
\* ON CONFLICT (stripe_subscription_id) DO NOTHING
InsertStripeSkeleton(subs, uid, cust, sid) ==
    IF sid \in DOMAIN subs THEN subs
    ELSE Put(subs, sid, [SubscriptionRow(uid, "NULL", "active", "monthly", "stripe")
                           EXCEPT !.stripe_customer_id = cust])

\* db.add(PaymentAudit(...)); the client address columns are left out
Audit(dbv, actor, action, session, detail) ==
    [dbv EXCEPT !.payment_audit = @ (+) SetToBag({[actor_id |-> actor, action |-> action,
                                                  session_id |-> session, details |-> detail]})]

\* SELECT actor_id FROM checkout_records WHERE session_id=:sid
CheckoutActorBySession(dbv, cs_id) ==
    LET hit == {i \in DOMAIN dbv.checkout_records : dbv.checkout_records[i].session_id = cs_id}
    IN IF hit = {} THEN "NULL" ELSE dbv.checkout_records[CHOOSE i \in hit : TRUE].actor_id

\* SELECT actor_id FROM checkout_records WHERE raw_session->>'customer'=:cust
\* ORDER BY created_at DESC LIMIT 1
CheckoutActorByCustomer(dbv, cust) ==
    LET hit == {i \in DOMAIN dbv.checkout_records :
                   dbv.checkout_records[i].raw_session_customer = cust}
    IN IF hit = {} THEN "NULL"
       ELSE dbv.checkout_records[CHOOSE i \in hit : \A j \in hit : j <= i].actor_id

-----------------------------------------------------------------------------
(* Stripe webhook events: event.data.object with the keys the handler reads; *)
(* a key the payload does not carry is "NULL" / NoInt.                       *)

StripeObject ==
    [id |-> "NULL", subscription |-> "NULL", customer |-> "NULL",
     payment_method |-> "NULL",
     cancel_at_period_end |-> FALSE, has_items |-> FALSE,
     status |-> "NULL", amount_due |-> 0, amount_paid |-> 0, currency |-> "usd",
     invoice_pdf |-> "NULL", hosted_invoice_url |-> "NULL",
     period_start |-> NoInt, period_end |-> NoInt,
     subtotal |-> NoInt, tax |-> NoInt, total |-> NoInt, tax_percent |-> NoInt,
     current_period_start |-> NoInt]

StripeEvent(id, type, object) == [id |-> id, type |-> type, data |-> object]

evt_checkout ==
    StripeEvent("evt_checkout", "checkout.session.completed",
        [StripeObject EXCEPT !.id = "cs_1", !.subscription = "sub_a", !.customer = "cus_1"])

evt_sub_updated ==
    StripeEvent("evt_sub_updated", "customer.subscription.updated",
        [StripeObject EXCEPT !.id = "sub_a", !.customer = "cus_1", !.has_items = TRUE,
                             !.status = "active", !.current_period_start = 0])

\* the completion of a second checkout session naming the same subscription
evt_checkout_other ==
    StripeEvent("evt_checkout_other", "checkout.session.completed",
        [StripeObject EXCEPT !.id = "cs_2", !.subscription = "sub_a", !.customer = "cus_2"])

\* the invoice of the period, paid: every field populated
evt_invoice_paid ==
    StripeEvent("evt_invoice_paid", "invoice.paid",
        [StripeObject EXCEPT !.id = "in_1", !.subscription = "sub_a", !.customer = "cus_1",
                             !.status = "paid", !.amount_due = 1020, !.amount_paid = 1020,
                             !.invoice_pdf = "pdf_1", !.hosted_invoice_url = "hosted_1",
                             !.period_start = 1, !.period_end = 2,
                             !.subtotal = 1000, !.tax = 20, !.total = 1020])

\* an earlier payment attempt on the same invoice, delivered in any order:
\* no URLs, no period, no amounts (amount_due 0)
evt_invoice_failed ==
    StripeEvent("evt_invoice_failed", "invoice.payment_failed",
        [StripeObject EXCEPT !.id = "in_1", !.subscription = "sub_a", !.customer = "cus_1",
                             !.status = "open"])

\* customer.subscription.updated while the cancellation at period end is
\* still pending
evt_sub_cancel_pending ==
    StripeEvent("evt_sub_cancel_pending", "customer.subscription.updated",
        [StripeObject EXCEPT !.id = "sub_a", !.customer = "cus_1", !.has_items = TRUE,
                             !.status = "active", !.cancel_at_period_end = TRUE,
                             !.current_period_start = 0])

\* customer.subscription.updated at the next renewal
evt_sub_renewed ==
    StripeEvent("evt_sub_renewed", "customer.subscription.updated",
        [StripeObject EXCEPT !.id = "sub_a", !.customer = "cus_1", !.has_items = TRUE,
                             !.status = "active", !.current_period_start = MaxTime])

\* customer.subscription.updated whose payload carries no items
evt_sub_bare ==
    StripeEvent("evt_sub_bare", "customer.subscription.updated",
        [StripeObject EXCEPT !.id = "sub_a", !.customer = "cus_1", !.status = "active",
                             !.current_period_start = 0])

\* the other invoice events of the same invoice
evt_invoice_succeeded ==
    StripeEvent("evt_invoice_succeeded", "invoice.payment_succeeded", evt_invoice_paid.data)

evt_invoice_action ==
    StripeEvent("evt_invoice_action", "invoice.payment_action_required",
                evt_invoice_failed.data)

evt_invoice_finalized ==
    StripeEvent("evt_invoice_finalized", "invoice.finalized", evt_invoice_failed.data)

\* the completion of the checkout session of the contact's second
\* subscription
evt_checkout_new ==
    StripeEvent("evt_checkout_new", "checkout.session.completed",
        [StripeObject EXCEPT !.id = "cs_2", !.subscription = "sub_b", !.customer = "cus_1"])

\* customer.subscription.deleted for the first subscription
evt_sub_deleted ==
    StripeEvent("evt_sub_deleted", "customer.subscription.deleted",
        [StripeObject EXCEPT !.id = "sub_a", !.customer = "cus_1", !.has_items = TRUE,
                             !.status = "canceled", !.current_period_start = 0])

IsSubscriptionEvent(type) ==
    type \in {"customer.subscription.created", "customer.subscription.updated",
              "customer.subscription.deleted"}

IsInvoiceEvent(type) ==
    type \in {"invoice.paid", "invoice.finalized", "invoice.payment_failed",
              "invoice.payment_succeeded", "invoice.payment_action_required"}

ReconcileTypes ==
    {"checkout.session.completed", "invoice.paid", "invoice.finalized",
     "customer.subscription.updated", "customer.subscription.deleted"}

TAX_DEFAULT_CODE == "IT_DIGITAL"
TAX_DEFAULT_JURISDICTION == "Digital/IT Services"

-----------------------------------------------------------------------------
(* stripe_webhook: the branches on event_type.  Each returns the store and  *)
(* the locals the rest of the handler reads.                                *)

Locals(dbv, st, actor_id, sub_db_id, old_plan_id, stripe_sub_id) ==
    [db |-> dbv, stripe |-> st, actor_id |-> actor_id, sub_db_id |-> sub_db_id,
     old_plan_id |-> old_plan_id, stripe_sub_id |-> stripe_sub_id]

SubDbId(dbv, sid) ==
    IF sid \in DOMAIN dbv.subscriptions /\ dbv.subscriptions[sid].provider = "stripe"
    THEN sid ELSE "NULL"

_ensure_subscription_record(dbv, stripe_subscription_id, stripe_customer_id) ==
    LET none == [db |-> dbv, actor_id |-> "NULL", sub_db_id |-> "NULL", plan_id |-> "NULL"]
    IN  IF stripe_subscription_id = "NULL" THEN none
        ELSE IF SubDbId(dbv, stripe_subscription_id) # "NULL"
        THEN LET rec == dbv.subscriptions[stripe_subscription_id]
             IN  [db |-> dbv, actor_id |-> rec.billing_contact_user_id,
                  sub_db_id |-> stripe_subscription_id, plan_id |-> rec.plan_id]
        ELSE IF stripe_customer_id = "NULL" THEN none
        ELSE LET actor == CheckoutActorByCustomer(dbv, stripe_customer_id)
             IN  IF actor = "NULL" THEN none
                 ELSE LET db1 == [dbv EXCEPT !.subscriptions =
                                     InsertStripeSkeleton(@, actor, stripe_customer_id,
                                                          stripe_subscription_id)]
                          rec == db1.subscriptions[stripe_subscription_id]
                      IN  [db |-> db1, actor_id |-> rec.billing_contact_user_id,
                           sub_db_id |-> stripe_subscription_id, plan_id |-> rec.plan_id]

\* a payload that never asks to wait
\* scheduled_downgrades is kept in the order of created_at, a row being
\* [subscription_id, target_price_id]
RemoveAt(seq, i) == [j \in 1..(Len(seq) - 1) |-> IF j < i THEN seq[j] ELSE seq[j + 1]]

\* lines 142-157: SELECT ... WHERE subscription_id=:sid ORDER BY created_at
\* DESC LIMIT 1, as the position of the row; 0 when there is none
PendingDowngrade(rows, sid) ==
    LET hit == {i \in DOMAIN rows : rows[i].subscription_id = sid}
    IN  IF hit = {} THEN 0 ELSE CHOOSE i \in hit : \A j \in hit : j <= i

NeverWaiting(subscription_payload) == FALSE
\* lines 159-165: the current cycle has not ended yet, the schedule is kept
StillWaiting(subscription_payload) == subscription_payload.cancel_at_period_end

\* a handler that deletes the row and writes the audit row before it knows
\* whether stripe.Subscription.modify succeeded
_apply_before_modify(dbv, st, stripe_subscription_id, subscription_db_id, actor_id, subscription_payload, modify_ok) ==
    LET same == [db |-> dbv, stripe |-> st]
    IN  IF subscription_db_id = "NULL" THEN same
        ELSE IF PendingDowngrade(dbv.scheduled_downgrades, subscription_db_id) = 0 THEN same
        ELSE IF StillWaiting(subscription_payload) THEN same
        ELSE IF ~subscription_payload.has_items THEN same
        ELSE LET pending == PendingDowngrade(dbv.scheduled_downgrades, subscription_db_id)
                 target_price == dbv.scheduled_downgrades[pending].target_price_id
                 called == [st EXCEPT !.calls.scheduled_swap = @ + 1]
                 db1 == Audit([dbv EXCEPT !.scheduled_downgrades = RemoveAt(@, pending)],
                              actor_id, "scheduled_downgrade_applied",
                              stripe_subscription_id, <<target_price>>)
             IN  IF ~modify_ok \/ stripe_subscription_id \notin DOMAIN st.subscriptions
                 THEN [db |-> db1, stripe |-> called]
                 ELSE [db |-> db1,
                       stripe |-> [called EXCEPT !.subscriptions[stripe_subscription_id] =
                                      [@ EXCEPT !.cancel_at_period_end = FALSE,
                                                !.proration_behavior = "none",
                                                !.price = target_price]]]

\* modify_ok: whether stripe.Subscription.modify succeeds; the call is counted
\* in calls.scheduled_swap whether or not it does
_apply_scheduled_downgrade(dbv, st, stripe_subscription_id, subscription_db_id, actor_id, subscription_payload, modify_ok) ==
    LET same == [db |-> dbv, stripe |-> st]
    IN  IF subscription_db_id = "NULL" THEN same
        ELSE IF PendingDowngrade(dbv.scheduled_downgrades, subscription_db_id) = 0 THEN same
        ELSE IF StillWaiting(subscription_payload) THEN same
        ELSE IF ~subscription_payload.has_items THEN same
        ELSE LET pending == PendingDowngrade(dbv.scheduled_downgrades, subscription_db_id)
                 target_price == dbv.scheduled_downgrades[pending].target_price_id
                 called == [st EXCEPT !.calls.scheduled_swap = @ + 1]
                 db1 == [dbv EXCEPT !.scheduled_downgrades = RemoveAt(@, pending)]
             IN  IF ~modify_ok \/ stripe_subscription_id \notin DOMAIN st.subscriptions
                 THEN [db |-> dbv, stripe |-> called]
                 ELSE [db |-> Audit(db1, actor_id, "scheduled_downgrade_applied",
                                    stripe_subscription_id, <<target_price>>),
                       stripe |-> [called EXCEPT !.subscriptions[stripe_subscription_id] =
                                      [@ EXCEPT !.cancel_at_period_end = FALSE,
                                                !.proration_behavior = "none",
                                                !.price = target_price]]]

CheckoutCompletedBranch(dbv, st, data) ==
    LET actor_id == CheckoutActorBySession(dbv, data.id)
        stripe_sub_id == data.subscription
    IN  IF stripe_sub_id # "NULL" /\ actor_id # "NULL"
        THEN LET db1 == [dbv EXCEPT !.subscriptions =
                            InsertStripeSkeleton(@, actor_id, data.customer, stripe_sub_id)]
             IN  Locals(db1, st, actor_id, stripe_sub_id, "NULL", stripe_sub_id)
        ELSE Locals(dbv, st, actor_id, "NULL", "NULL", stripe_sub_id)

SubscriptionBranch(dbv, st, type, data, modify_ok) ==
    LET stripe_sub_id == data.id
        ensured == _ensure_subscription_record(dbv, stripe_sub_id, data.customer)
        applied == IF type = "customer.subscription.updated" /\ stripe_sub_id # "NULL"
                   THEN _apply_scheduled_downgrade(ensured.db, st, stripe_sub_id,
                            ensured.sub_db_id, ensured.actor_id, data, modify_ok)
                   ELSE [db |-> ensured.db, stripe |-> st]
    IN  Locals(applied.db, applied.stripe, ensured.actor_id, ensured.sub_db_id,
               ensured.plan_id, stripe_sub_id)

\* Python truthiness of an optional integer: None and 0 are falsy
Truthy(v) == v # NoInt /\ v # 0

OrZero(v) == IF Truthy(v) THEN v ELSE 0

\* (tax_cents or 0) / subtotal_cents * 100, kept in thousandths of a percent
TaxRatePercent(tax_cents, subtotal_cents) == (OrZero(tax_cents) * 100000) \div subtotal_cents

\* lines 1066-1083: the amounts written to the invoice row
InvoiceAmounts(data) ==
    LET subtotal == IF data.subtotal # NoInt THEN data.subtotal
                    ELSE IF Truthy(data.tax) THEN Max(data.amount_due - data.tax, 0)
                    ELSE data.amount_due
        total == IF data.total # NoInt THEN data.total
                 ELSE OrZero(subtotal) + OrZero(data.tax)
        tax == IF data.tax = NoInt /\ subtotal # 0 THEN Max(total - subtotal, 0)
               ELSE data.tax
        rate == IF data.tax_percent = NoInt /\ subtotal > 0
                THEN TaxRatePercent(tax, subtotal)
                ELSE data.tax_percent
    IN  [subtotal_cents |-> subtotal, tax_cents |-> tax, total_cents |-> total,
         tax_rate_percent |-> rate]

\* the row of VALUES (...) at lines 1100-1153
StripeInvoiceValues(actor_id, sub_db_id, data) ==
    LET amounts == InvoiceAmounts(data)
    IN  [user_id |-> actor_id, subscription_id |-> sub_db_id, provider |-> "stripe",
         paddle_invoice_id |-> "NULL",
         amount_due_cents |-> data.amount_due, amount_paid_cents |-> data.amount_paid,
         currency |-> data.currency,
         invoice_pdf_url |-> data.invoice_pdf,
         hosted_invoice_url |-> data.hosted_invoice_url,
         status |-> data.status,
         period_start |-> IF Truthy(data.period_start) THEN data.period_start ELSE NoInt,
         period_end |-> IF Truthy(data.period_end) THEN data.period_end ELSE NoInt,
         subtotal_cents |-> amounts.subtotal_cents, tax_cents |-> amounts.tax_cents,
         total_cents |-> amounts.total_cents,
         tax_rate_percent |-> amounts.tax_rate_percent,
         tax_code |-> TAX_DEFAULT_CODE, tax_jurisdiction |-> TAX_DEFAULT_JURISDICTION]

\* INSERT ... ON CONFLICT (stripe_invoice_id) DO UPDATE SET col = EXCLUDED.col
\* for every column except user_id and subscription_id
UpsertStripeInvoice(invoices, iid, values) ==
    IF iid \in DOMAIN invoices
    THEN [invoices EXCEPT ![iid] = [values EXCEPT !.user_id = invoices[iid].user_id,
                                                  !.subscription_id = invoices[iid].subscription_id]]
    ELSE Put(invoices, iid, values)

InvoiceBranch(dbv, st, data) ==
    LET invoice_id == data.id
        stripe_sub_id == data.subscription
        customer_id == data.customer
        found == stripe_sub_id # "NULL" /\ SubDbId(dbv, stripe_sub_id) # "NULL"
        actor0 == IF found THEN dbv.subscriptions[stripe_sub_id].billing_contact_user_id
                  ELSE "NULL"
        actor_id == IF actor0 = "NULL" /\ customer_id # "NULL"
                    THEN CheckoutActorByCustomer(dbv, customer_id)
                    ELSE actor0
        create == stripe_sub_id # "NULL" /\ actor_id # "NULL" /\ ~found
        db1 == IF create
               THEN [dbv EXCEPT !.subscriptions =
                        InsertStripeSkeleton(@, actor_id, customer_id, stripe_sub_id)]
               ELSE dbv
        sub_db_id == IF found \/ create THEN SubDbId(db1, stripe_sub_id) ELSE "NULL"
        db2 == IF actor_id # "NULL" /\ sub_db_id # "NULL"
               THEN [db1 EXCEPT !.invoices =
                        UpsertStripeInvoice(@, invoice_id,
                            StripeInvoiceValues(actor_id, sub_db_id, data))]
               ELSE db1
    IN  Locals(db2, st, actor_id, sub_db_id, "NULL", stripe_sub_id)

\* lines 1229-1376: the reconcile block.  retrieve_ok: whether
\* stripe.Subscription.retrieve succeeds; on an exception the block is left
\* and only logged.
Reconcile(loc, type, retrieve_ok) ==
    LET sid == loc.stripe_sub_id
        actor_id == loc.actor_id
        org_id == IF actor_id # "NULL" THEN UserOrg(actor_id) ELSE "NULL"
    IN  IF ~(type \in ReconcileTypes /\ loc.sub_db_id # "NULL") THEN loc.db
        ELSE IF ~retrieve_ok \/ sid \notin DOMAIN loc.stripe.subscriptions THEN loc.db
        ELSE
        LET sub_obj == loc.stripe.subscriptions[sid]
            price_id == sub_obj.price
            plan_id == PlanIdByPrice(price_id)
            interval == IF plan_id = "NULL" THEN "NULL"
                        ELSE IF price_id = SubscriptionPlan[plan_id].stripe_price_id_monthly
                        THEN "monthly" ELSE "yearly"
            db1 == [loc.db EXCEPT !.subscriptions[sid] =
                       [@ EXCEPT !.plan_id = plan_id, !.status = sub_obj.status,
                                 !.interval = interval,
                                 !.current_period_start = sub_obj.current_period_start,
                                 !.current_period_end = sub_obj.current_period_end,
                                 !.cancel_at_period_end = sub_obj.cancel_at_period_end,
                                 !.trial_end = IF Truthy(sub_obj.trial_end)
                                               THEN sub_obj.trial_end ELSE NoInt]]
            db2 == IF actor_id = "NULL" THEN db1
                   ELSE [db1 EXCEPT !.subscriptions =
                            [k \in DOMAIN @ |->
                                IF /\ @[k].billing_contact_user_id = actor_id
                                   /\ StripeSubscriptionId(@, k) # "NULL"
                                   /\ k # sid
                                THEN [@[k] EXCEPT !.status = "inactive"]
                                ELSE @[k]]]
            db3 == IF org_id # "NULL"
                   THEN [db2 EXCEPT !.organizations[org_id].subscription_id = loc.sub_db_id]
                   ELSE db2
            old_plan_id == loc.old_plan_id
            Reset(key) == LET old == PlanLimit(old_plan_id, key)
                          IN  old = NoInt \/ PlanLimit(plan_id, key) > old
        IN  IF org_id # "NULL" /\ plan_id # "NULL"
                /\ (old_plan_id = "NULL" \/ old_plan_id # plan_id)
            THEN [db3 EXCEPT !.usage_counters[org_id] =
                     [key \in DOMAIN @ |-> IF Reset(key) THEN 0 ELSE @[key]]]
            ELSE db3

\* a handler that notifies of nothing
NoPaymentStatus(type) == "NULL"
\* lines 1209-1213
PaymentStatus(type) ==
    IF type \in {"invoice.payment_succeeded", "invoice.paid"} THEN "success"
    ELSE IF type \in {"invoice.payment_failed", "invoice.payment_action_required"}
    THEN "failed"
    ELSE "NULL"

\* lines 1215-1224 and 554-591: the status notify_payment posts, "NULL" when
\* the handler does not call it or it returns before the POST
NotifiedStatus(type, actor_id) ==
    LET org_id == IF actor_id # "NULL" THEN UserOrg(actor_id) ELSE "NULL"
    IN  IF PaymentStatus(type) # "NULL" /\ org_id # "NULL" THEN PaymentStatus(type)
        ELSE "NULL"

\* lines 857-1204: the branch on event_type
EventBranch(dbv, st, e, modify_ok) ==
    IF e.type = "checkout.session.completed"
    THEN CheckoutCompletedBranch(dbv, st, e.data)
    ELSE IF IsSubscriptionEvent(e.type)
    THEN SubscriptionBranch(dbv, st, e.type, e.data, modify_ok)
    ELSE IF IsInvoiceEvent(e.type)
    THEN InvoiceBranch(dbv, st, e.data)
    ELSE Locals(dbv, st, "NULL", "NULL", "NULL", "NULL")

\* lines 1150-1378: the WEBHOOK_RECEIVED audit row, the payment notification
\* and the reconcile block, on the locals loc the branch has left
AfterBranch(loc, e, retrieve_ok) ==
    [db |-> Reconcile([loc EXCEPT !.db = Audit(@, loc.actor_id, "WEBHOOK_RECEIVED",
                                              e.data.id, <<e.type, e.id>>)],
                      e.type, retrieve_ok),
     stripe |-> loc.stripe,
     reconciled |-> /\ e.type \in ReconcileTypes
                    /\ loc.sub_db_id # "NULL"
                    /\ retrieve_ok
                    /\ loc.stripe_sub_id \in DOMAIN loc.stripe.subscriptions,
     sub |-> loc.stripe_sub_id,
     notify |-> NotifiedStatus(e.type, loc.actor_id)]

\* lines 843-1378: everything after the event has been recorded
HandleStripeEvent(dbv, st, e, modify_ok, retrieve_ok) ==
    AfterBranch(EventBranch(dbv, st, e, modify_ok), e, retrieve_ok)

-----------------------------------------------------------------------------
(* Webhook deliveries.  A delivery occupies a slot from the moment the      *)
(* request arrives until its response is sent; the response stays visible   *)
(* in the slot (pc "done") until the slot takes the next request.           *)

Slots == 1..MaxDeliveries

\* reconciled: the subscription whose reconcile block (billing_routes.py
\* 1229-1373) this delivery ran to its end, "NULL" if it ran none
\* notified: the status of the payment notification this delivery posted to
\* the notification service, "NULL" if it posted none, and whether the POST
\* went through
NoNotification == [status |-> "NULL", delivered |-> FALSE]

IdleDelivery ==
    [endpoint |-> "NULL", event |-> "NULL", pc |-> "idle", resp |-> "NULL",
     reconciled |-> "NULL", notified |-> NoNotification]

Free(d) == deliveries[d].pc \in {"idle", "done"}

\* requests are taken by the lowest free slot
Takes(d) == Free(d) /\ \A c \in Slots : c < d => ~Free(c)

Done(d, resp) ==
    [deliveries EXCEPT ![d] = [endpoint |-> deliveries[d].endpoint, event |-> "NULL",
                               pc |-> "done", resp |-> resp, reconciled |-> "NULL",
                               notified |-> NoNotification]]

StripeEvents == {evt_checkout, evt_sub_updated, evt_invoice_paid, evt_invoice_failed}

\* the customer.subscription.updated events around a scheduled downgrade
DowngradeEvents == {evt_sub_cancel_pending, evt_sub_updated, evt_sub_renewed, evt_sub_bare}

\* the events that follow a checkout
OnboardingEvents == {evt_checkout, evt_checkout_other, evt_invoice_paid}

\* every event a delivery may carry
NotifyEvents ==
    {evt_invoice_paid, evt_invoice_succeeded, evt_invoice_failed, evt_invoice_action,
     evt_invoice_finalized, evt_sub_updated}

\* events about the first subscription that arrive after the second one
LateEvents == {evt_invoice_paid, evt_sub_deleted, evt_sub_updated}

StripeEventCatalogue ==
    StripeEvents \cup DowngradeEvents \cup OnboardingEvents \cup NotifyEvents \cup LateEvents

StripeEventById(id) == CHOOSE e \in StripeEventCatalogue : e.id = id

\* an idempotency check that finds nothing
NeverProcessed(dbv, event_id) == FALSE
\* lines 829-839: SELECT 1 FROM billing_events WHERE event_id=:eid
AlreadyProcessed(dbv, event_id) == event_id \in dbv.billing_events

StripeReceive(d, e) ==
    /\ Takes(d)
    /\ deliveries' =
          IF AlreadyProcessed(db, e.id)
          THEN [deliveries EXCEPT ![d] = [IdleDelivery EXCEPT !.endpoint = "stripe",
                                             !.pc = "done", !.resp = "already_processed"]]
          ELSE [deliveries EXCEPT ![d] = [IdleDelivery EXCEPT !.endpoint = "stripe",
                                             !.event = e.id, !.pc = "checked"]]
    /\ UNCHANGED <<db, stripe, upgrade, cancels, now, calc, h_confirmed, checkouts, skeleton, downgrades, verification, taxed>>

\* lines 840-841: db.add(BillingEvent) and commit; billing_events.event_id is
\* unique, and the IntegrityError of a lost race is not caught: HTTP 500
StripeRecord(d) ==
    /\ deliveries[d].endpoint = "stripe"
    /\ deliveries[d].pc = "checked"
    /\ IF deliveries[d].event \in db.billing_events
       THEN /\ deliveries' = Done(d, "error_500")
            /\ db' = db
       ELSE /\ deliveries' = [deliveries EXCEPT ![d].pc = "recorded"]
            /\ db' = [db EXCEPT !.billing_events = @ \cup {deliveries[d].event}]
    /\ UNCHANGED <<stripe, upgrade, cancels, now, calc, h_confirmed, checkouts, skeleton, downgrades, verification, taxed>>

Notification(status, notify_ok) ==
    [status |-> status, delivered |-> notify_ok /\ status # "NULL"]

\* the writes and the response of the handler, given what it has computed
StripeRespond(d, out, notify_ok) ==
    /\ db' = out.db
    /\ stripe' = out.stripe
    /\ h_confirmed' = IF out.reconciled
                      THEN [h_confirmed EXCEPT ![out.sub] =
                               out.db.subscriptions[out.sub].plan_id]
                      ELSE h_confirmed
    /\ deliveries' = [Done(d, "success") EXCEPT
                        ![d].reconciled = IF out.reconciled THEN out.sub ELSE "NULL",
                        ![d].notified = Notification(out.notify, notify_ok)]

\* notify_ok: whether the POST of notify_payment goes through; its exception
\* is caught and logged at lines 583-591
StripeHandle(d, modify_ok, retrieve_ok) ==
    /\ deliveries[d].endpoint = "stripe"
    /\ deliveries[d].pc = "recorded"
    /\ \E notify_ok \in BOOLEAN :
          StripeRespond(d, HandleStripeEvent(db, stripe, StripeEventById(deliveries[d].event),
                                             modify_ok, retrieve_ok), notify_ok)
    /\ UNCHANGED <<upgrade, cancels, now, calc, checkouts, skeleton, downgrades, verification, taxed>>

-----------------------------------------------------------------------------
(* PUT /subscription with action "upgrade": upgrade_subscription_logic      *)

\* called: whether the request has called stripe.Subscription.modify
IdleUpgrade ==
    [pc |-> "idle", sid |-> "NULL", price |-> "NULL", resp |-> "NULL", called |-> FALSE]

\* every failure answered as a server error
AlwaysUpgradeError(outcome) == "error_500"
\* lines 172-176: stripe.error.CardError is answered with HTTP 402, any other
\* exception with HTTP 500
UpgradeFailureStatus(outcome) ==
    IF outcome = "card_declined" THEN "error_402" ELSE "error_500"

UpgradePrices == {"price_2m", "price_3m"}

\* lines 99-112: Subscription.modify, then Invoice.retrieve.  outcome:
\*   "ok"             both calls succeed
\*   "card_declined"  Subscription.modify raises CardError: nothing changed
\*   "modify_failed"  Subscription.modify raises: nothing changed at Stripe
\*   "invoice_failed" Subscription.modify succeeded, Invoice.retrieve raises
UpgradeModify(sid, new_price_id, outcome) ==
    /\ upgrade.pc = "idle"
    /\ sid \in DOMAIN stripe.subscriptions
    /\ stripe' = IF outcome \in {"modify_failed", "card_declined"} THEN stripe
                 ELSE [stripe EXCEPT !.subscriptions[sid] =
                          [@ EXCEPT !.price = new_price_id,
                                    !.proration_behavior = "always_invoice"]]
    /\ upgrade' = IF outcome = "ok"
                  THEN [pc |-> "persist", sid |-> sid, price |-> new_price_id,
                        resp |-> "NULL", called |-> TRUE]
                  ELSE [IdleUpgrade EXCEPT !.resp = UpgradeFailureStatus(outcome),
                                           !.called = TRUE]
    /\ UNCHANGED <<db, deliveries, cancels, now, calc, h_confirmed, checkouts, skeleton, downgrades, verification, taxed>>

\* lines 114-127: UPDATE subscriptions SET plan_id = (SELECT id ...) and commit
UpgradePersist ==
    /\ upgrade.pc = "persist"
    /\ db' = IF SubDbId(db, upgrade.sid) # "NULL"
             THEN [db EXCEPT !.subscriptions[upgrade.sid].plan_id = PlanIdByPrice(upgrade.price)]
             ELSE db
    /\ upgrade' = [IdleUpgrade EXCEPT !.resp = "success", !.called = TRUE]
    /\ UNCHANGED <<stripe, deliveries, cancels, now, calc, h_confirmed, checkouts, skeleton, downgrades, verification, taxed>>

DowngradePrices == {"price_1m", "price_3m"}

\* stripe_client.py 211-232: the UPDATE of the rows of the subscription when
\* the SELECT found one, the INSERT of a new row otherwise
WriteScheduledDowngrade(rows, exists, sub_db_id, new_price_id) ==
    IF exists
    THEN [i \in DOMAIN rows |-> IF rows[i].subscription_id = sub_db_id
                                THEN [rows[i] EXCEPT !.target_price_id = new_price_id]
                                ELSE rows[i]]
    ELSE Append(rows, [subscription_id |-> sub_db_id, target_price_id |-> new_price_id])

\* PUT /subscription with action "downgrade": downgrade_subscription_logic.
\* The scheduled_downgrades row of the subscription is updated when there is
\* one and inserted otherwise; any failure is answered with HTTP 500.
DowngradeSchedule(sid, new_price_id) ==
    /\ upgrade.pc = "idle"
    /\ sid \in DOMAIN stripe.subscriptions
    /\ LET sub_db_id == SubDbId(db, sid)
           user_id == IF sub_db_id = "NULL" THEN "NULL"
                      ELSE db.subscriptions[sub_db_id].billing_contact_user_id
           org_id == IF user_id = "NULL" THEN "NULL" ELSE UserOrg(user_id)
       IN  IF sub_db_id = "NULL" \/ org_id = "NULL"
           THEN /\ db' = db
                /\ upgrade' = [IdleUpgrade EXCEPT !.resp = "error_500"]
           ELSE /\ db' = [db EXCEPT !.scheduled_downgrades =
                            WriteScheduledDowngrade(@, PendingDowngrade(@, sub_db_id) # 0,
                                                    sub_db_id, new_price_id)]
                /\ upgrade' = [IdleUpgrade EXCEPT !.resp = "success"]
    /\ UNCHANGED <<stripe, deliveries, cancels, now, calc, h_confirmed, checkouts, skeleton, downgrades, verification, taxed>>

\* a price id that is not the plan's yearly one taken for its monthly one
MonthlyUnlessYearly(plan_id, price_id) ==
    IF price_id = SubscriptionPlan[plan_id].stripe_price_id_yearly THEN "yearly" ELSE "monthly"
\* stripe_client.py 272-286: the interval a price id stands for in a plan
\* row; "NULL" when it is neither of the plan's two price ids
IntervalOfPrice(plan_id, price_id) ==
    IF price_id = SubscriptionPlan[plan_id].stripe_price_id_monthly THEN "monthly"
    ELSE IF price_id = SubscriptionPlan[plan_id].stripe_price_id_yearly THEN "yearly"
    ELSE "NULL"

\* PUT /subscription with action "cycle": cycle_switch_logic.  The current
\* price is that of the subscription as retrieved from Stripe.  A switch from
\* monthly to yearly is upgrade_subscription_logic, one from yearly to monthly
\* downgrade_subscription_logic; any other request is answered with HTTP 400.
CycleSwitch(sid, new_price_id, outcome) ==
    /\ upgrade.pc = "idle"
    /\ sid \in DOMAIN stripe.subscriptions
    /\ LET current_price == stripe.subscriptions[sid].price
           plan == PlanIdByPrice(current_price)
           current_interval == IF plan = "NULL" THEN "NULL"
                               ELSE IntervalOfPrice(plan, current_price)
           requested_interval == IF plan = "NULL" THEN "NULL"
                                 ELSE IntervalOfPrice(plan, new_price_id)
       IN  IF \/ plan = "NULL"
              \/ requested_interval = "NULL"
              \/ current_interval = requested_interval
           THEN /\ upgrade' = [IdleUpgrade EXCEPT !.resp = "error_400"]
                /\ UNCHANGED <<db, stripe, deliveries, cancels, now, calc, h_confirmed, checkouts, skeleton, downgrades, verification, taxed>>
           ELSE IF current_interval = "monthly" /\ requested_interval = "yearly"
           THEN UpgradeModify(sid, new_price_id, outcome)
           ELSE DowngradeSchedule(sid, new_price_id)

MaxDowngrades == 2
DowngradeSlots == 1..MaxDowngrades

\* exists: the result of the SELECT on scheduled_downgrades
IdleDowngrade ==
    [pc |-> "idle", sub_db_id |-> "NULL", org_id |-> "NULL", price |-> "NULL",
     exists |-> FALSE, resp |-> "NULL"]

\* stripe_client.py 180-209: the three SELECTs of a downgrade request
DowngradeSelect(r, sid, new_price_id) ==
    /\ downgrades[r].pc = "idle"
    /\ \A b \in DowngradeSlots : b < r => downgrades[b].pc # "idle"
    /\ sid \in DOMAIN stripe.subscriptions
    /\ LET sub_db_id == SubDbId(db, sid)
           user_id == IF sub_db_id = "NULL" THEN "NULL"
                      ELSE db.subscriptions[sub_db_id].billing_contact_user_id
           org_id == IF user_id = "NULL" THEN "NULL" ELSE UserOrg(user_id)
       IN  downgrades' = [downgrades EXCEPT ![r] =
              IF sub_db_id = "NULL" \/ org_id = "NULL"
              THEN [IdleDowngrade EXCEPT !.pc = "done", !.resp = "error_500"]
              ELSE [IdleDowngrade EXCEPT !.pc = "selected", !.sub_db_id = sub_db_id,
                       !.org_id = org_id, !.price = new_price_id,
                       !.exists = PendingDowngrade(db.scheduled_downgrades, sub_db_id) # 0]]
    /\ UNCHANGED <<db, stripe, deliveries, upgrade, cancels, now, calc, h_confirmed, checkouts, skeleton, verification, taxed>>

\* stripe_client.py 211-239: the UPDATE or the INSERT, and the commit
DowngradeWrite(r) ==
    /\ downgrades[r].pc = "selected"
    /\ db' = [db EXCEPT !.scheduled_downgrades =
                 WriteScheduledDowngrade(@, downgrades[r].exists, downgrades[r].sub_db_id,
                                         downgrades[r].price)]
    /\ downgrades' = [downgrades EXCEPT ![r].pc = "done", ![r].resp = "success"]
    /\ UNCHANGED <<stripe, deliveries, upgrade, cancels, now, calc, h_confirmed, checkouts, skeleton, verification, taxed>>

\* the price of the subscription is changed at Stripe by something other than
\* this service (the dashboard, a price migration): Stripe then sends
\* customer.subscription.updated
ProviderPriceChange(sid, price) ==
    /\ sid \in DOMAIN stripe.subscriptions
    /\ stripe.subscriptions[sid].price # price
    /\ stripe' = [stripe EXCEPT !.subscriptions[sid].price = price]
    /\ UNCHANGED <<db, deliveries, upgrade, cancels, now, calc, h_confirmed, checkouts, skeleton, downgrades, verification, taxed>>

\* the metering services count one more use of a resource
UseResource(org, key) ==
    /\ db.usage_counters[org][key] < MaxUsed
    /\ db' = [db EXCEPT !.usage_counters[org][key] = @ + 1]
    /\ UNCHANGED <<stripe, deliveries, upgrade, cancels, now, calc, h_confirmed, checkouts, skeleton, downgrades, verification, taxed>>

-----------------------------------------------------------------------------
(* Paddle webhook (app/api/paddle_webhook_routes.py)                         *)

\* event data with custom_data flattened (cd_*); absent keys are "NULL"/NoInt
PaddleObject ==
    [id |-> "NULL", subscription_id |-> "NULL", status |-> "NULL",
     cd_actor_id |-> "NULL", cd_org_id |-> "NULL", cd_plan_id |-> "NULL",
     cd_interval |-> "NULL", cd_subtotal_cents |-> NoInt, cd_tax_cents |-> NoInt,
     cd_total_cents |-> NoInt, cd_tax_rate_percent |-> NoInt,
     starts_at |-> NoInt, ends_at |-> NoInt, currency_code |-> "NULL",
     subtotal |-> NoInt, tax |-> NoInt, total |-> NoInt,
     invoice_id |-> "NULL", customer_id |-> "NULL"]

PaddleEvent(id, type, object) == [id |-> id, type |-> type, data |-> object]

pevt_sub_activated ==
    PaddleEvent("pevt_sub_activated", "subscription.activated",
        [PaddleObject EXCEPT !.id = "psub_1", !.status = "active",
                             !.cd_actor_id = "u1", !.cd_plan_id = "p1",
                             !.cd_interval = "yearly", !.starts_at = 1, !.ends_at = 2])

\* an activation whose custom_data names a user that belongs to no
\* organization, and no organization
pevt_sub_orphan ==
    PaddleEvent("pevt_sub_orphan", "subscription.activated",
        [PaddleObject EXCEPT !.id = "psub_2", !.status = "active",
                             !.cd_actor_id = "u2", !.cd_plan_id = "p1",
                             !.cd_interval = "yearly", !.starts_at = 1, !.ends_at = 2])

\* as delivered before activation, possibly after it; no custom_data
pevt_sub_created ==
    PaddleEvent("pevt_sub_created", "subscription.created",
        [PaddleObject EXCEPT !.id = "psub_1", !.status = "Pending"])

pevt_sub_updated ==
    PaddleEvent("pevt_sub_updated", "subscription.updated",
        [PaddleObject EXCEPT !.id = "psub_1", !.status = "pending",
                             !.cd_actor_id = "u1", !.cd_plan_id = "p1"])

\* a renewal payment has failed
pevt_sub_past_due ==
    PaddleEvent("pevt_sub_past_due", "subscription.past_due",
        [PaddleObject EXCEPT !.id = "psub_1", !.status = "past_due",
                             !.cd_actor_id = "u1", !.cd_plan_id = "p1"])

\* the subscription has ended; the payload has no status key
pevt_sub_canceled ==
    PaddleEvent("pevt_sub_canceled", "subscription.canceled",
        [PaddleObject EXCEPT !.id = "psub_1", !.cd_actor_id = "u1", !.cd_plan_id = "p1"])

pevt_txn_paid ==
    PaddleEvent("pevt_txn_paid", "transaction.paid",
        [PaddleObject EXCEPT !.id = "txn_1", !.subscription_id = "psub_1",
                             !.status = "paid", !.cd_actor_id = "u1", !.cd_plan_id = "p1",
                             !.cd_subtotal_cents = 1000, !.cd_tax_cents = 20,
                             !.cd_total_cents = 1020, !.cd_tax_rate_percent = 2000,
                             !.currency_code = "USD", !.customer_id = "ctm_1"])

\* the same transaction later, without custom_data and without a status key
pevt_txn_completed ==
    PaddleEvent("pevt_txn_completed", "transaction.completed",
        [PaddleObject EXCEPT !.id = "txn_1", !.subscription_id = "psub_1",
                             !.total = 1020, !.invoice_id = "pinv_1"])

\* a later payment of the same subscription, billed to another customer id;
\* no custom_data
pevt_txn_rebilled ==
    PaddleEvent("pevt_txn_rebilled", "transaction.paid",
        [PaddleObject EXCEPT !.id = "txn_2", !.subscription_id = "psub_1",
                             !.status = "paid", !.total = 1020, !.currency_code = "USD",
                             !.invoice_id = "pinv_2", !.customer_id = "ctm_2"])

\* str.lower() on the strings that occur
Lower(str) ==
    CASE str = "Pending" -> "pending"
      [] str = "Active" -> "active"
      [] str = "USD" -> "usd"
      [] OTHER -> str

\* event_type.split(".")[-1]
LastSegment(type) ==
    CASE type = "subscription.activated" -> "activated"
      [] type = "subscription.created" -> "created"
      [] type = "subscription.updated" -> "updated"
      [] type = "subscription.canceled" -> "canceled"
      [] type = "subscription.past_due" -> "past_due"
      [] type = "transaction.paid" -> "paid"
      [] type = "transaction.completed" -> "completed"
      [] OTHER -> type

IsPaddleSubscriptionEvent(type) ==
    type \in {"subscription.activated", "subscription.created",
              "subscription.updated", "subscription.canceled",
              "subscription.past_due"}

IsPaddleTransactionEvent(type) == type \in {"transaction.paid", "transaction.completed"}

_to_cents(value) == IF value = NoInt THEN 0 ELSE value

\* a or b on optional strings / optional integers
OrStr(a, b) == IF a # "NULL" THEN a ELSE b
OrInt(a, b) == IF Truthy(a) THEN a ELSE b
CoalesceInt(a, b) == IF a # NoInt THEN a ELSE b
NullIfZero(v) == IF v = 0 THEN NoInt ELSE v

_extract_context_from_custom_data(data) ==
    [actor_id |-> data.cd_actor_id, org_id |-> data.cd_org_id,
     plan_id |-> data.cd_plan_id, interval |-> OrStr(data.cd_interval, "monthly"),
     subtotal_cents |-> _to_cents(data.cd_subtotal_cents),
     tax_cents |-> _to_cents(data.cd_tax_cents),
     total_cents |-> _to_cents(data.cd_total_cents),
     tax_rate_percent |-> data.cd_tax_rate_percent]

PaddleSubDbId(dbv, psid) ==
    IF psid \in DOMAIN dbv.subscriptions /\ dbv.subscriptions[psid].provider = "paddle"
    THEN psid ELSE "NULL"

\* the CASE of ON CONFLICT (paddle_subscription_id) DO UPDATE SET status = ...
StatusOnConflictTakeExcluded(stored, excluded) == excluded
StatusOnConflict(stored, excluded) ==
    IF stored = "active" /\ excluded \in {"pending"} THEN stored ELSE excluded

_upsert_subscription_strong(dbv, actor_id, plan_id, status0, interval0, paddle_subscription_id, cps, cpe) ==
    LET status == Lower(status0)
        interval == OrStr(interval0, "monthly")
        psid == paddle_subscription_id
        subs == dbv.subscriptions
    IN  IF psid \in DOMAIN subs
        THEN [dbv EXCEPT !.subscriptions[psid] =
                 [@ EXCEPT !.status = StatusOnConflict(@, status),
                           !.interval = OrStr(interval, @),
                           !.plan_id = OrStr(plan_id, @),
                           !.current_period_start = CoalesceInt(cps, @),
                           !.current_period_end = CoalesceInt(cpe, @),
                           !.last_updated_by = OrStr(actor_id, @),
                           !.billing_contact_user_id = OrStr(actor_id, @)]]
        ELSE [dbv EXCEPT !.subscriptions =
                 Put(@, psid, [SubscriptionRow(actor_id, plan_id, status, interval, "paddle")
                                  EXCEPT !.last_updated_by = actor_id,
                                         !.current_period_start = cps,
                                         !.current_period_end = cpe])]

\* INSERT ... VALUES (..., 'pending', ...) ON CONFLICT (paddle_subscription_id) DO NOTHING
_ensure_subscription_exists_only(dbv, actor_id, plan_id, interval0, paddle_subscription_id) ==
    IF paddle_subscription_id \in DOMAIN dbv.subscriptions THEN dbv
    ELSE [dbv EXCEPT !.subscriptions =
             Put(@, paddle_subscription_id,
                 [SubscriptionRow(actor_id, plan_id, "pending", OrStr(interval0, "monthly"),
                                  "paddle")
                     EXCEPT !.last_updated_by = actor_id])]

\* UPDATE organizations SET subscription_id = :sid WHERE id = :oid
_link_org_subscription(dbv, org_id, subscription_db_id) ==
    IF org_id \in DOMAIN dbv.organizations
    THEN [dbv EXCEPT !.organizations[org_id].subscription_id = subscription_db_id]
    ELSE dbv

\* SELECT id FROM organizations WHERE subscription_id = :sid LIMIT 1
_lookup_org_id_by_subscription_db_id(dbv, subscription_db_id) ==
    LET hit == {o \in DOMAIN dbv.organizations :
                   dbv.organizations[o].subscription_id = subscription_db_id}
    IN  IF hit = {} THEN "NULL" ELSE CHOOSE o \in hit : TRUE

\* an UPDATE that sets the column whatever it holds
OverwritePaddleCustomerId(dbv, subscription_db_id, paddle_customer_id) ==
    IF subscription_db_id = "NULL" \/ paddle_customer_id = "NULL" THEN dbv
    ELSE [dbv EXCEPT !.subscriptions[subscription_db_id].paddle_customer_id =
             paddle_customer_id]
\* lines 45-65: SET paddle_customer_id = COALESCE(paddle_customer_id, :pcid)
_update_subscription_paddle_customer_id(dbv, subscription_db_id, paddle_customer_id) ==
    IF subscription_db_id = "NULL" \/ paddle_customer_id = "NULL" THEN dbv
    ELSE [dbv EXCEPT !.subscriptions[subscription_db_id].paddle_customer_id =
             OrStr(@, paddle_customer_id)]

\* INSERT INTO invoices ... ON CONFLICT (paddle_transaction_id) DO UPDATE SET ...
_upsert_invoice_terminal(dbv, actor_id, subscription_db_id, paddle_transaction_id, paddle_invoice_id, status0, currency0, subtotal_cents, tax_cents, total_cents, tax_rate_percent, period_start, period_end) ==
    LET status == Lower(status0)
        currency == Lower(OrStr(currency0, "usd"))
        txid == paddle_transaction_id
        values ==
            [user_id |-> actor_id, subscription_id |-> subscription_db_id,
             provider |-> "paddle", paddle_invoice_id |-> paddle_invoice_id,
             amount_due_cents |-> total_cents,
             amount_paid_cents |-> IF status \in {"paid", "completed"} THEN total_cents ELSE 0,
             currency |-> currency,
             invoice_pdf_url |-> "NULL", hosted_invoice_url |-> "NULL",
             status |-> status,
             period_start |-> period_start, period_end |-> period_end,
             subtotal_cents |-> NullIfZero(subtotal_cents),
             tax_cents |-> NullIfZero(tax_cents),
             total_cents |-> NullIfZero(total_cents),
             tax_rate_percent |-> tax_rate_percent,
             tax_code |-> "NULL", tax_jurisdiction |-> "NULL"]
    IN  IF txid \in DOMAIN dbv.invoices
        THEN [dbv EXCEPT !.invoices[txid] =
                 [@ EXCEPT !.subscription_id = OrStr(values.subscription_id, @),
                           !.paddle_invoice_id = OrStr(values.paddle_invoice_id, @),
                           !.currency = values.currency,
                           !.status = values.status,
                           !.amount_due_cents = values.amount_due_cents,
                           !.amount_paid_cents = values.amount_paid_cents,
                           !.period_start = CoalesceInt(values.period_start, @),
                           !.period_end = CoalesceInt(values.period_end, @),
                           !.subtotal_cents = CoalesceInt(values.subtotal_cents, @),
                           !.tax_cents = CoalesceInt(values.tax_cents, @),
                           !.total_cents = CoalesceInt(values.total_cents, @),
                           !.tax_rate_percent = CoalesceInt(values.tax_rate_percent, @)]]
        ELSE [dbv EXCEPT !.invoices = Put(@, txid, values)]

_update_invoice_urls(dbv, txid, pdf_url) ==
    IF pdf_url = "NULL" \/ txid \notin DOMAIN dbv.invoices THEN dbv
    ELSE [dbv EXCEPT !.invoices[txid] =
             [@ EXCEPT !.invoice_pdf_url = OrStr(@, pdf_url),
                       !.hosted_invoice_url = OrStr(@, pdf_url)]]

\* what GET /transactions/{id} may return: nothing, or the transaction
NoDetail == [found |-> FALSE, invoice_id |-> "NULL", customer_id |-> "NULL",
             starts_at |-> NoInt, ends_at |-> NoInt]
TxDetails == {NoDetail,
              [found |-> TRUE, invoice_id |-> "pinv_1", customer_id |-> "ctm_1",
               starts_at |-> 1, ends_at |-> 2]}
PdfUrls == {"NULL", "paddle_pdf_1"}

\* lines 532-576
PaddleSubscriptionBranch(dbv, e, ctx, org_id0) ==
    LET data == e.data
        psid == OrStr(data.id, data.subscription_id)
        status == Lower(OrStr(data.status, LastSegment(e.type)))
        existing == PaddleSubDbId(dbv, psid) # "NULL"
        actor_id == IF existing THEN OrStr(ctx.actor_id, dbv.subscriptions[psid].created_by)
                    ELSE ctx.actor_id
        plan_id == IF existing THEN OrStr(ctx.plan_id, dbv.subscriptions[psid].plan_id)
                   ELSE ctx.plan_id
        db1 == _upsert_subscription_strong(dbv, actor_id, plan_id, status, ctx.interval,
                                           psid, data.starts_at, data.ends_at)
        sub_db_id == PaddleSubDbId(db1, psid)
        org_id == IF sub_db_id # "NULL"
                  THEN OrStr(org_id0, _lookup_org_id_by_subscription_db_id(db1, sub_db_id))
                  ELSE org_id0
    IN  IF psid = "NULL" THEN dbv
        ELSE IF sub_db_id # "NULL" /\ org_id # "NULL"
        THEN _link_org_subscription(db1, org_id, sub_db_id)
        ELSE db1

\* lines 581-695
PaddleTransactionBranch(dbv, e, ctx, org_id, tx_detail, pdf_url) ==
    LET data == e.data
        txid == data.id
        psid == data.subscription_id
        status == Lower(OrStr(data.status, LastSegment(e.type)))
        currency == OrStr(data.currency_code, "usd")
        subtotal_cents == OrInt(ctx.subtotal_cents, _to_cents(data.subtotal))
        tax_cents == OrInt(ctx.tax_cents, _to_cents(data.tax))
        total_cents == OrInt(ctx.total_cents, _to_cents(data.total))
        existing == psid # "NULL" /\ PaddleSubDbId(dbv, psid) # "NULL"
        db1 == IF psid # "NULL" /\ ~existing
               THEN _ensure_subscription_exists_only(dbv, ctx.actor_id, ctx.plan_id,
                                                     ctx.interval, psid)
               ELSE dbv
        sub_db_id == IF psid # "NULL" THEN PaddleSubDbId(db1, psid) ELSE "NULL"
        db2 == IF psid # "NULL" /\ ~existing /\ sub_db_id # "NULL" /\ org_id # "NULL"
               THEN _link_org_subscription(db1, org_id, sub_db_id)
               ELSE db1
        db3 == _update_subscription_paddle_customer_id(db2, sub_db_id, data.customer_id)
        need_tx_detail == data.invoice_id = "NULL" \/ data.customer_id = "NULL"
        detail == IF need_tx_detail THEN tx_detail ELSE NoDetail
        paddle_invoice_id == IF detail.found THEN OrStr(data.invoice_id, detail.invoice_id)
                             ELSE data.invoice_id
        db4 == _upsert_invoice_terminal(db3, ctx.actor_id, sub_db_id, txid,
                   paddle_invoice_id, status, currency, subtotal_cents, tax_cents,
                   total_cents, ctx.tax_rate_percent, detail.starts_at, detail.ends_at)
    IN  IF txid = "NULL" THEN dbv
        ELSE IF status \in {"paid", "completed"} THEN _update_invoice_urls(db4, txid, pdf_url)
        ELSE db2

\* lines 506-698: everything after the idempotency guard
HandlePaddleEvent(dbv, e, tx_detail, pdf_url) ==
    LET db0 == Audit(dbv, "NULL", "paddle_webhook_received", e.id, <<e.type>>)
        ctx == _extract_context_from_custom_data(e.data)
        resolve == ctx.org_id = "NULL" /\ ctx.actor_id # "NULL"
        org_id == IF resolve THEN UserOrg(ctx.actor_id) ELSE ctx.org_id
    IN  IF resolve /\ org_id = "NULL" THEN [db |-> db0, resp |-> "error_404"]
        ELSE IF IsPaddleSubscriptionEvent(e.type)
        THEN [db |-> PaddleSubscriptionBranch(db0, e, ctx, org_id), resp |-> "ok"]
        ELSE IF IsPaddleTransactionEvent(e.type)
        THEN [db |-> PaddleTransactionBranch(db0, e, ctx, org_id, tx_detail, pdf_url),
              resp |-> "ok"]
        ELSE [db |-> db0, resp |-> "ok"]

PaddleEvents ==
    {pevt_sub_activated, pevt_sub_created, pevt_sub_updated, pevt_txn_paid,
     pevt_txn_completed}

\* the events of a subscription's later life, delivered in any order
PaddleStatusEvents == {pevt_sub_activated, pevt_sub_past_due, pevt_sub_canceled}

\* what a checkout's subscription and a stranger's subscription send
PaddleLookupEvents == {pevt_sub_activated, pevt_sub_orphan}

\* the transactions of a subscription, before and after its activation
PaddleTransactionEvents ==
    {pevt_sub_activated, pevt_txn_paid, pevt_txn_completed, pevt_txn_rebilled}

PaddleEventById(id) == CHOOSE e \in PaddleEvents \cup PaddleStatusEvents \cup PaddleLookupEvents \cup PaddleTransactionEvents : e.id = id

\* lines 498-504: db.add(BillingEvent); commit; IntegrityError -> already_processed
PaddleReceive(d, e) ==
    /\ Takes(d)
    /\ IF e.id \in db.billing_events
       THEN /\ deliveries' = [deliveries EXCEPT ![d] =
                   [IdleDelivery EXCEPT !.endpoint = "paddle", !.pc = "done",
                                        !.resp = "already_processed"]]
            /\ db' = db
       ELSE /\ deliveries' = [deliveries EXCEPT ![d] =
                   [IdleDelivery EXCEPT !.endpoint = "paddle", !.event = e.id,
                                        !.pc = "recorded"]]
            /\ db' = [db EXCEPT !.billing_events = @ \cup {e.id}]
    /\ UNCHANGED <<stripe, upgrade, cancels, now, calc, h_confirmed, checkouts, skeleton, downgrades, verification, taxed>>

PaddleHandle(d, tx_detail, pdf_url) ==
    /\ deliveries[d].endpoint = "paddle"
    /\ deliveries[d].pc = "recorded"
    /\ LET out == HandlePaddleEvent(db, PaddleEventById(deliveries[d].event),
                                    tx_detail, pdf_url)
       IN  /\ db' = out.db
           /\ deliveries' = Done(d, out.resp)
    /\ UNCHANGED <<stripe, upgrade, cancels, now, calc, h_confirmed, checkouts, skeleton, downgrades, verification, taxed>>

-----------------------------------------------------------------------------
(* Webhook signatures.  A signature is the HMAC of "<ts>" and the raw body   *)
(* under a key; the HMAC is kept as the triple it was computed from.        *)

SignatureTolerance == 300

Hmac(key, ts, raw) == <<key, ts, raw>>

\* the signature header of a request carrying the body raw at time clock:
\* absent, or a timestamp with one signature, fresh or stale, made with the
\* endpoint's secret or another key, over this body or another one
SignatureHeaders(raw, clock, secret) ==
    {[present |-> FALSE, ts |-> clock, sig |-> Hmac("forged", clock, raw)]}
    \cup {[present |-> TRUE, ts |-> ts, sig |-> Hmac(key, ts, body)] :
             ts \in {clock, clock - SignatureTolerance - 1},
             key \in {secret, "forged"}, body \in {raw, "other_body"}}

\* A Paddle-Signature header is a text "ts=...;h1=...": the sequence of its
\* ";"-separated parts, each a key with a text value (ts) or a digest (h1).
\* The absent and the empty header are << >>.
NoDigest == Hmac("", "", "")
TsPart(text) == [k |-> "ts", text |-> text, sig |-> NoDigest]
H1Part(sig) == [k |-> "h1", text |-> "", sig |-> sig]

\* paddle_webhook_routes.py 36-42: ts is the value of the last ts part, ""
\* when there is none; h1s are the values of the h1 parts
_parse_paddle_sig(header) ==
    LET at == {i \in DOMAIN header : header[i].k = "ts"}
        last == CHOOSE i \in at : \A j \in at : j <= i
    IN  [ts |-> IF at = {} THEN "" ELSE header[last].text,
         h1s |-> {header[i].sig : i \in {j \in DOMAIN header : header[j].k = "h1"}}]

\* the ages of a timestamp examined: the present, both edges of the
\* tolerance window and the first second outside it on each side
TimestampOffsets ==
    {0 - SignatureTolerance - 1, 0 - SignatureTolerance, 0, SignatureTolerance,
     SignatureTolerance + 1}

\* the times a header may name
TimestampValues == {clock + k : clock \in 0..MaxClock, k \in TimestampOffsets}

\* int(ts): the number a decimal text stands for; ValueError for another text
ParseInt(text) ==
    LET hit == {n \in TimestampValues : ToString(n) = text}
    IN  IF hit = {} THEN [ok |-> FALSE, n |-> 0]
        ELSE [ok |-> TRUE, n |-> CHOOSE n \in hit : TRUE]

\* a check that lets every age pass
AnyAge(clock, ts) == TRUE
\* line 83: not abs(int(time.time()) - int(ts)) > int(tolerance_sec)
WithinTolerance(clock, ts) ==
    IF clock >= ts THEN clock - ts <= SignatureTolerance ELSE ts - clock <= SignatureTolerance

\* a verification that accepts every header
AcceptAnySignature(raw, header, secret, clock) == TRUE
\* paddle_webhook_routes.py 68-93
verify_paddle_signature(raw, header, secret, clock) ==
    IF raw = "" \/ header = << >> \/ secret = "" THEN FALSE
    ELSE LET parsed == _parse_paddle_sig(header)
             ts == ParseInt(parsed.ts)
         IN  IF parsed.ts = "" \/ parsed.h1s = {} THEN FALSE
             ELSE IF ~ts.ok THEN FALSE
             ELSE IF ~WithinTolerance(clock, ts.n) THEN FALSE
             ELSE \E h1 \in parsed.h1s : h1 = Hmac(secret, parsed.ts, raw)

\* the Paddle-Signature header of a request carrying the body raw at time
\* clock: absent, or a timestamp with one signature, fresh or stale, made
\* with the endpoint's secret or another key, over this body or another one
PaddleSignatureHeaders(raw, clock, secret) ==
    {<< >>}
    \cup {<<TsPart(ToString(ts)), H1Part(Hmac(key, ToString(ts), body))>> :
             ts \in {clock, clock - SignatureTolerance - 1},
             key \in {secret, "forged"}, body \in {raw, "other_body"}}

\* stripe.Webhook.construct_event: the header is verified against the body,
\* then the body is parsed
construct_event(raw, header, secret, clock, parse_ok) ==
    IF \/ clock - header.ts > SignatureTolerance
       \/ header.sig # Hmac(secret, header.ts, raw) THEN "SignatureVerificationError"
    ELSE IF ~parse_ok THEN "ValueError"
    ELSE "event"

Rejected(d, endpoint, resp) ==
    /\ deliveries' = [deliveries EXCEPT ![d] =
          [IdleDelivery EXCEPT !.endpoint = endpoint, !.pc = "done", !.resp = resp]]
    /\ UNCHANGED <<db, stripe, upgrade, cancels, now, calc, h_confirmed, checkouts, skeleton, downgrades, verification, taxed>>

\* billing_routes.py 809-841: POST /webhook up to the idempotency check
StripeWebhookRequest(d, e, header, parse_ok) ==
    /\ Takes(d)
    /\ IF ~header.present THEN Rejected(d, "stripe", "error_400")
       ELSE LET built == construct_event(e.id, header, "whsec_stripe", now, parse_ok)
            IN  IF built = "SignatureVerificationError"
                THEN Rejected(d, "stripe", "error_400")
                ELSE IF built # "event" THEN Rejected(d, "stripe", "error_500")
                ELSE StripeReceive(d, e)

\* paddle_webhook_routes.py 464-504: POST /webhook up to the idempotency
\* guard; secret is settings.PADDLE_WEBHOOK_SECRET, "" when not configured
PaddleWebhookRequest(d, e, header, secret, parse_ok) ==
    /\ Takes(d)
    /\ IF header = << >> THEN Rejected(d, "paddle", "error_400")
       ELSE IF secret = "" THEN Rejected(d, "paddle", "error_500")
       ELSE IF ~verify_paddle_signature(e.id, header, secret, now)
            THEN Rejected(d, "paddle", "error_400")
       ELSE IF ~parse_ok THEN Rejected(d, "paddle", "error_400")
       ELSE PaddleReceive(d, e)

PaddleSecrets == {"", "whsec_paddle"}

\* one call of calculate_tax, examined on its own
NoTax == [called |-> FALSE, base_amount_cents |-> 0, rate |-> Rate(0, 0),
          details |-> [subtotal_cents |-> 0, tax_cents |-> 0, total_cents |-> 0]]

MaxBase == 10

\* the base amounts examined: the smallest ones, the multiples of a quarter
\* of a hundred, whose tax at two percent ends in one half, and the prices of
\* the plans
TaxBases ==
    (0..MaxBase) \cup {25 * n : n \in 0..MaxBase}
    \cup {PlanPrice(plan_id, interval) : plan_id \in PlanIds, interval \in {"monthly", "yearly"}}

\* the rates examined: none, the default, 0.5, 0.075, 0.2 and 1
TaxRates == {Rate(0, 0), TAX_DEFAULT_RATE, Rate(5, 1), Rate(75, 3), Rate(2, 1), Rate(1, 0)}

TaxCalculate(base_amount_cents, rate) ==
    /\ taxed' = [called |-> TRUE, base_amount_cents |-> base_amount_cents, rate |-> rate,
               details |-> calculate_tax(base_amount_cents, rate)]
    /\ UNCHANGED <<db, stripe, deliveries, upgrade, cancels, now, calc, h_confirmed, checkouts, skeleton, downgrades, verification>>

\* one call of verify_paddle_signature, examined on its own
NoVerification ==
    [called |-> FALSE, raw |-> "", header |-> << >>, secret |-> "", clock |-> 0,
     accepted |-> FALSE]

\* the bodies, and the clock readings, of the calls examined
VerifyBodies == {"", "body"}
VerifyClocks == {0, MaxClock}

\* the timestamp texts a header may carry at time clock: a time at each of
\* the ages examined, a text that is no number, and nothing
VerifyTimestamps(clock) ==
    {ToString(clock + k) : k \in TimestampOffsets} \cup {"soon", ""}

\* the headers examined: none; a timestamp alone; a signature alone; a
\* timestamp with one signature; a timestamp with two signatures, as sent
\* while the secret is rotated
VerifyHeaders(raw, clock, secret) ==
    LET sigs(t) == {Hmac(key, t, body) : key \in {secret, "forged"}, body \in {raw, "other_body"}}
        good(t) == Hmac(secret, t, raw)
    IN  {<< >>}
        \cup {<<TsPart(t)>> : t \in VerifyTimestamps(clock)}
        \cup {<<H1Part(good(ToString(clock)))>>}
        \cup UNION {{<<TsPart(t), H1Part(h)>> : h \in sigs(t)} : t \in VerifyTimestamps(clock)}
        \cup UNION {{<<TsPart(t), H1Part(Hmac("forged", t, raw)), H1Part(h)>> : h \in sigs(t)} :
                        t \in VerifyTimestamps(clock)}

Verify(raw, header, secret, clock) ==
    /\ verification' = [called |-> TRUE, raw |-> raw, header |-> header, secret |-> secret,
                        clock |-> clock,
                        accepted |-> verify_paddle_signature(raw, header, secret, clock)]
    /\ UNCHANGED <<db, stripe, deliveries, upgrade, cancels, now, calc, h_confirmed, checkouts, skeleton, downgrades, taxed>>

-----------------------------------------------------------------------------
(* POST /subscription/cancel with mode "immediate":                         *)
(* cancel_subscription and _cancel_subscription_immediately                 *)

CancelSlots == 1..MaxCancels

NoResponse ==
    [status |-> "NULL", refund_amount_cents |-> NoInt, currency |-> "NULL",
     refund_mode |-> "NULL", stripe_refund_id |-> "NULL"]

ErrorResponse(status) == [NoResponse EXCEPT !.status = status]

IdleCancel ==
    [pc |-> "idle", sid |-> "NULL", period_start |-> NoInt, period_end |-> NoInt,
     refund_mode |-> "NULL", refund_amount |-> NoInt, currency |-> "NULL",
     invoice_id |-> "NULL", payment_intent_id |-> "NULL", refund_id |-> "NULL",
     owed |-> NoInt, resp |-> NoResponse]

\* lines 406-408
NormalizedMode(refund_mode) ==
    IF refund_mode \in {"full", "prorated", "none"} THEN refund_mode ELSE "none"

\* a lookup that never finds a row
NoImmediateRows(dbv, sid) == {}
\* lines 374-385: SELECT ... FROM cancellation_requests
\*                WHERE subscription_id=:sid AND mode='immediate'
ImmediateRows(dbv, sid) ==
    {r \in BagToSet(dbv.cancellation_requests) :
        r.subscription_id = sid /\ r.mode = "immediate"}

\* lines 386-396: the response built from the stored row
StoredResponse(row) ==
    [status |-> "ok",
     refund_amount_cents |-> OrZero(row.refund_amount_cents),
     currency |-> OrStr(row.refund_currency, "usd"),
     refund_mode |-> row.refund_mode,
     stripe_refund_id |-> row.stripe_refund_id]

\* idempotency_key=f"cancel-{subscription_id}-{invoice_id or 'none'}-{refund_amount}"
IdempotencyKey(sid, invoice_id, refund_amount) ==
    "cancel-" \o sid \o "-" \o OrStr(invoice_id, "none") \o "-" \o ToString(refund_amount)

\* Stripe keeps one refund per idempotency key
RefundId(key) == "re_" \o key

\* route lines 1598-1609 and function lines 372-396: the subscription of the
\* caller's organization is read, then the cancellation_requests lookup.  With
\* several matching rows LIMIT 1 returns any of them.
CancelStart(c, actor_id, refund) ==
    /\ cancels[c].pc = "idle"
    /\ \A b \in CancelSlots : b < c => cancels[b].pc # "idle"
    /\ LET org_id == UserOrg(actor_id)
           sid == IF org_id = "NULL" THEN "NULL"
                  ELSE db.organizations[org_id].subscription_id
           rows == ImmediateRows(db, sid)
       IN  IF org_id = "NULL" \/ sid = "NULL"
           THEN cancels' = [cancels EXCEPT ![c] =
                   [IdleCancel EXCEPT !.pc = "done", !.resp = ErrorResponse("error_404")]]
           ELSE IF StripeSubscriptionId(db.subscriptions, sid) = "NULL"
           THEN cancels' = [cancels EXCEPT ![c] =
                   [IdleCancel EXCEPT !.pc = "done", !.resp = ErrorResponse("error_400")]]
           ELSE IF rows # {}
           THEN \E row \in rows :
                   cancels' = [cancels EXCEPT ![c] =
                      [IdleCancel EXCEPT !.pc = "done", !.sid = sid,
                                         !.resp = StoredResponse(row)]]
           ELSE cancels' = [cancels EXCEPT ![c] =
                   [IdleCancel EXCEPT !.pc = "looked", !.sid = sid,
                       !.period_start = db.subscriptions[sid].current_period_start,
                       !.period_end = db.subscriptions[sid].current_period_end,
                       !.refund_mode = NormalizedMode(refund)]]
    /\ UNCHANGED <<db, stripe, deliveries, upgrade, now, calc, h_confirmed, checkouts, skeleton, downgrades, verification, taxed>>

\* the payment_intent of an invoice: a reference, the expanded object, or None
IntentRef(ref) == [expanded |-> FALSE, id |-> "NULL", ref |-> ref]
IntentObject(id) == [expanded |-> TRUE, id |-> id, ref |-> "NULL"]
NoIntent == IntentRef("NULL")

\* lines 252-258
_extract_payment_intent_id(invoice) ==
    IF invoice.payment_intent.expanded THEN invoice.payment_intent.id
    ELSE invoice.payment_intent.ref

\* what the calls of stripe.Invoice.list do: the first, with status="paid",
\* answers; the first raises and the second, without the filter, answers;
\* both raise
ListOutcomes == {"filtered", "unfiltered", "failed"}

NoInvoice ==
    [id |-> "NULL", status |-> "NULL", amount_paid |-> 0, currency |-> "usd",
     payment_intent |-> NoIntent]

\* a lookup that takes the newest invoice whatever its status
LatestInvoiceOfAnyStatus(invoices, listing) ==
    IF listing = "failed" \/ invoices = << >> THEN [found |-> FALSE, invoice |-> NoInvoice]
    ELSE [found |-> TRUE, invoice |-> invoices[1]]
\* lines 278-302; invoices are those of the subscription, newest first
_get_latest_paid_invoice(invoices, listing) ==
    LET IsPaid(invoice) == invoice.status = "paid"
        data == IF listing = "filtered" THEN SelectSeq(invoices, IsPaid)
                ELSE IF listing = "unfiltered" THEN SubSeq(invoices, 1, Min(1, Len(invoices)))
                ELSE << >>
    IN  IF data = << >> THEN [found |-> FALSE, invoice |-> NoInvoice]
        ELSE IF data[1].status # "paid" THEN [found |-> FALSE, invoice |-> NoInvoice]
        ELSE [found |-> TRUE, invoice |-> data[1]]

\* the amount owed, recorded whether refunded or not
OwedRefund(refunding, refund_amount) == refund_amount
\* lines 461-466: without a payment intent the amount is set to 0
RecordedRefund(refunding, refund_amount) == IF refunding THEN refund_amount ELSE 0

\* line 546: "refunded": refund_amount > 0
Refunded(resp) == resp.refund_amount_cents > 0

\* a refund failure that is swallowed
RefundFailureIgnored(refunding, refund_ok) == FALSE
\* lines 441-460: an exception of stripe.Refund.create becomes HTTPException(400)
RefundFailureAborts(refunding, refund_ok) == refunding /\ ~refund_ok

\* lines 398-466, which run without yielding: Invoice.list, the refund
\* amount, Subscription.delete, Refund.create.
\*   listing         what the calls of stripe.Invoice.list do
\*   delete_ok       whether Subscription.delete of a live subscription succeeds
\*                   (a canceled one answers resource_missing, taken as success)
\*   refund_ok       whether Refund.create succeeds
CancelProvider(c, listing, delete_ok, refund_ok) ==
    /\ cancels[c].pc = "looked"
    /\ LET req == cancels[c]
           sid == req.sid
           latest == _get_latest_paid_invoice(
                        IF sid \in DOMAIN stripe.invoices THEN stripe.invoices[sid] ELSE << >>,
                        listing)
           has_invoice == latest.found
           invoice_data == latest.invoice
           amount_paid == IF has_invoice THEN invoice_data.amount_paid ELSE 0
           currency == IF has_invoice THEN invoice_data.currency ELSE "usd"
           invoice_id == IF has_invoice THEN invoice_data.id ELSE "NULL"
           payment_intent_id == IF has_invoice THEN _extract_payment_intent_id(invoice_data)
                                ELSE "NULL"
           refund_amount ==
               IF req.refund_mode = "full" THEN amount_paid
               ELSE IF req.refund_mode = "prorated"
               THEN _calculate_prorated_amount(amount_paid, req.period_start,
                                               req.period_end, now)
               ELSE 0
           missing == sid \notin DOMAIN stripe.subscriptions
                         \/ stripe.subscriptions[sid].status = "canceled"
           deleted == missing \/ delete_ok
           refunding == refund_amount > 0 /\ payment_intent_id # "NULL"
           key == IdempotencyKey(sid, invoice_id, refund_amount)
           st1 == [stripe EXCEPT !.calls.invoice_list = @ + (IF listing = "filtered" THEN 1 ELSE 2),
                                 !.calls.subscription_delete = @ + 1]
           st2 == IF deleted /\ ~missing
                  THEN [st1 EXCEPT !.subscriptions[sid].status = "canceled"]
                  ELSE st1
           st3 == IF deleted /\ refunding
                  THEN [st2 EXCEPT !.calls.refund_create = @ + 1,
                                   !.refunds = IF refund_ok THEN @ \cup {key} ELSE @]
                  ELSE st2
       IN  /\ stripe' = st3
           /\ cancels' =
                 IF ~deleted \/ RefundFailureAborts(refunding, refund_ok)
                 THEN [cancels EXCEPT ![c] =
                         [IdleCancel EXCEPT !.pc = "done", !.sid = sid,
                                            !.resp = ErrorResponse("error_400")]]
                 ELSE [cancels EXCEPT ![c] =
                         [req EXCEPT !.pc = "called",
                                     !.owed = refund_amount,
                                     !.refund_amount = RecordedRefund(refunding, refund_amount),
                                     !.currency = currency,
                                     !.invoice_id = invoice_id,
                                     !.payment_intent_id = payment_intent_id,
                                     !.refund_id = IF refunding THEN RefundId(key)
                                                   ELSE "NULL"]]
    /\ UNCHANGED <<db, deliveries, upgrade, now, calc, h_confirmed, checkouts, skeleton, downgrades, verification, taxed>>

\* lines 468-551: the subscription row, the cancellation_requests row, the
\* audit rows, one commit, the response
CancelPersist(c, actor_id) ==
    /\ cancels[c].pc = "called"
    /\ LET req == cancels[c]
           sid == req.sid
           db1 == [db EXCEPT !.subscriptions[sid] =
                      [@ EXCEPT !.status = "canceled", !.cancel_at_period_end = FALSE,
                                !.current_period_end = now]]
           db2 == [db1 EXCEPT !.cancellation_requests = @ (+) SetToBag({
                      [subscription_id |-> sid, stripe_subscription_id |-> sid,
                       mode |-> "immediate", refund_mode |-> req.refund_mode,
                       refund_amount_cents |-> req.refund_amount,
                       refund_currency |-> req.currency,
                       stripe_refund_id |-> req.refund_id,
                       stripe_invoice_id |-> req.invoice_id,
                       payment_intent_id |-> req.payment_intent_id]})]
           db3 == Audit(db2, actor_id, "cancel_immediately", sid,
                        <<req.refund_mode, ToString(req.refund_amount), req.currency>>)
           db4 == IF req.refund_id # "NULL"
                  THEN Audit(db3, actor_id, "refund_created", req.refund_id,
                             <<req.invoice_id, req.payment_intent_id,
                               ToString(req.refund_amount), req.currency>>)
                  ELSE db3
       IN  /\ db' = db4
           /\ cancels' = [cancels EXCEPT ![c] =
                 [IdleCancel EXCEPT !.pc = "done", !.sid = sid,
                     !.resp = [status |-> "ok",
                               refund_amount_cents |-> req.refund_amount,
                               currency |-> req.currency,
                               refund_mode |-> req.refund_mode,
                               stripe_refund_id |-> req.refund_id]]]
    /\ UNCHANGED <<stripe, deliveries, upgrade, now, calc, h_confirmed, checkouts, skeleton, downgrades, verification, taxed>>

\* a check that never sees the flag
NeverFlagged(row) == FALSE
\* line 312: if subscription_row.cancel_at_period_end
AlreadyFlagged(row) == row.cancel_at_period_end

\* the answer of _cancel_subscription_cycle_end, lines 313-319 and 354-360
CycleEndResponse == [NoResponse EXCEPT !.status = "ok", !.refund_mode = "cycle_end"]

\* route lines 1598-1612 and function lines 312-319: the subscription of the
\* caller's organization is read; a row already flagged is answered as it is
CycleEndStart(c, actor_id) ==
    /\ cancels[c].pc = "idle"
    /\ \A b \in CancelSlots : b < c => cancels[b].pc # "idle"
    /\ LET org_id == UserOrg(actor_id)
           sid == IF org_id = "NULL" THEN "NULL"
                  ELSE db.organizations[org_id].subscription_id
       IN  IF org_id = "NULL" \/ sid = "NULL"
           THEN cancels' = [cancels EXCEPT ![c] =
                   [IdleCancel EXCEPT !.pc = "done", !.resp = ErrorResponse("error_404")]]
           ELSE IF StripeSubscriptionId(db.subscriptions, sid) = "NULL"
           THEN cancels' = [cancels EXCEPT ![c] =
                   [IdleCancel EXCEPT !.pc = "done", !.resp = ErrorResponse("error_400")]]
           ELSE IF AlreadyFlagged(db.subscriptions[sid])
           THEN cancels' = [cancels EXCEPT ![c] =
                   [IdleCancel EXCEPT !.pc = "done", !.sid = sid, !.resp = CycleEndResponse]]
           ELSE cancels' = [cancels EXCEPT ![c] =
                   [IdleCancel EXCEPT !.pc = "cycle_read", !.sid = sid]]
    /\ UNCHANGED <<db, stripe, deliveries, upgrade, now, calc, h_confirmed, checkouts, skeleton, downgrades, verification, taxed>>

\* lines 323-333: stripe.Subscription.modify(stripe_sub_id,
\* cancel_at_period_end=True); a failure is answered with 400
CycleEndModify(c, modify_ok) ==
    /\ cancels[c].pc = "cycle_read"
    /\ LET sid == cancels[c].sid
           ok == modify_ok /\ sid \in DOMAIN stripe.subscriptions
           called == [stripe EXCEPT !.calls.subscription_modify = @ + 1]
       IN  IF ok
           THEN /\ stripe' = [called EXCEPT !.subscriptions[sid].cancel_at_period_end = TRUE]
                /\ cancels' = [cancels EXCEPT ![c].pc = "cycle_called"]
           ELSE /\ stripe' = called
                /\ cancels' = [cancels EXCEPT ![c] =
                      [IdleCancel EXCEPT !.pc = "done", !.sid = sid,
                                         !.resp = ErrorResponse("error_400")]]
    /\ UNCHANGED <<db, deliveries, upgrade, now, calc, h_confirmed, checkouts, skeleton, downgrades, verification, taxed>>

\* lines 335-360: UPDATE subscriptions SET cancel_at_period_end=TRUE, the
\* cancel_at_cycle_end audit row, one commit
CycleEndPersist(c, actor_id) ==
    /\ cancels[c].pc = "cycle_called"
    /\ LET sid == cancels[c].sid
           db1 == [db EXCEPT !.subscriptions[sid].cancel_at_period_end = TRUE]
       IN  /\ db' = Audit(db1, actor_id, "cancel_at_cycle_end", sid, <<sid>>)
           /\ cancels' = [cancels EXCEPT ![c] =
                 [IdleCancel EXCEPT !.pc = "done", !.sid = sid, !.resp = CycleEndResponse]]
    /\ UNCHANGED <<stripe, deliveries, upgrade, now, calc, h_confirmed, checkouts, skeleton, downgrades, verification, taxed>>

\* lines 468-510 failing: the UPDATE, an INSERT or the commit raises, the
\* transaction is rolled back and the request is answered with a server error
CancelPersistFails(c) ==
    /\ cancels[c].pc = "called"
    /\ cancels' = [cancels EXCEPT ![c] =
          [IdleCancel EXCEPT !.pc = "done", !.sid = cancels[c].sid,
                             !.resp = ErrorResponse("error_500")]]
    /\ UNCHANGED <<db, stripe, deliveries, upgrade, now, calc, h_confirmed, checkouts, skeleton, downgrades, verification, taxed>>

\* time passes
Tick ==
    /\ now < MaxTime
    /\ now' = now + 1
    /\ UNCHANGED <<db, stripe, deliveries, upgrade, cancels, calc, h_confirmed, checkouts, skeleton, downgrades, verification, taxed>>

-----------------------------------------------------------------------------
(* POST /create-checkout-session and POST /paddle/create-checkout:          *)
(* _create_checkout_session_for_provider                                    *)

\* create-checkout requests made in one run
MaxCheckouts == 2

CheckoutSlots == 1..MaxCheckouts

\* provider_called: whether the request reached provider.create_checkout;
\* raised: the exception create_checkout left with
IdleCheckout ==
    [pc |-> "idle", provider |-> "NULL",
     payload |-> [planId |-> "NULL", interval |-> "NULL", user_id |-> "NULL",
                  email |-> "NULL"],
     address |-> "NULL", session |-> << >>, provider_called |-> FALSE,
     raised |-> "NULL", resp |-> "NULL"]

\* the request body: planId, interval, user.id, user.email
CheckoutPayloads ==
    [planId : {"NULL", "p1", "p4", "p9"}, interval : {"monthly", "weekly"},
     user_id : {"NULL", "u1", "u2"}, email : {"NULL", "u@example.org"}]

\* what the request says about the billing address and what the address
\* table holds for the organization (Paddle only):
\*   "id_found" / "id_missing"    billing_address_id names an active address or not
\*   "payload_ok" / "payload_bad" billing_address given, valid or not
\*   "default" / "none"           neither given; a default address exists or not
AddressInputs == {"id_found", "id_missing", "payload_ok", "payload_bad", "default", "none"}

\* lines 646-691, with create_address of billing_address_service.py
ResolveBillingAddress(address) ==
    CASE address = "id_found" -> [resp |-> "ok", created |-> FALSE]
      [] address = "id_missing" -> [resp |-> "error_404", created |-> FALSE]
      [] address = "payload_ok" -> [resp |-> "ok", created |-> TRUE]
      [] address = "payload_bad" -> [resp |-> "error_400", created |-> FALSE]
      [] address = "default" -> [resp |-> "ok", created |-> FALSE]
      [] OTHER -> [resp |-> "error_400", created |-> FALSE]

\* a validation that lets every request through
NoValidation(provider_name, payload, address) == "ok"
\* lines 600-623 and 638-691: the checks made before the provider is asked,
\* in the order of the code; "ok" or the error answered
CheckoutValidation(provider_name, payload, address) ==
    IF payload.planId = "NULL" THEN "error_400"
    ELSE IF payload.interval \notin {"monthly", "yearly"} THEN "error_400"
    ELSE IF payload.email = "NULL" THEN "error_400"
    ELSE IF provider_name = "paddle" /\ payload.user_id = "NULL" THEN "error_400"
    ELSE IF payload.planId \notin PlanIds THEN "error_404"
    ELSE IF ~SubscriptionPlan[payload.planId].is_active THEN "error_400"
    ELSE IF provider_name = "paddle" /\ UserOrg(payload.user_id) = "NULL" THEN "error_404"
    ELSE IF provider_name = "paddle" THEN ResolveBillingAddress(address).resp
    ELSE "ok"

\* what provider.create_checkout(ctx) does: it returns a session, raises
\* ProviderError with a status code, or raises another exception
ProviderOutcomes == {"ok", "provider_error_400", "provider_error_502", "exception"}

\* every failure answered as a server error
AlwaysServerError(outcome) == "error_500"
\* lines 781-786: the status the request fails with
ProviderFailureStatus(outcome) ==
    CASE outcome = "provider_error_400" -> "error_400"
      [] outcome = "provider_error_502" -> "error_502"
      [] OTHER -> "error_500"

\* create_new_subscription_session returns id, url, mode and currency of the
\* Stripe session; StripePaymentProvider adds provider and plan_id
StripeRawSession(c, plan_id) ==
    [id |-> "cs_" \o ToString(c), mode |-> "subscription", currency |-> "usd",
     provider |-> "stripe", plan_id |-> plan_id]

\* PaddlePaymentProvider.create_checkout: raw_session of the transaction
PaddleRawSession(c, plan_id) ==
    [id |-> "txn_" \o ToString(c), provider |-> "paddle", paddle_customer_id |-> "ctm_1"]

\* raw_session->>'customer'
RawSessionCustomer(raw_session) ==
    IF "customer" \in DOMAIN raw_session THEN raw_session.customer ELSE "NULL"

\* lines 600-717: validation, the billing address (a created address is
\* committed with its audit row before the provider is asked), then
\* provider.create_checkout
CheckoutRequest(c, provider_name, payload, address, outcome) ==
    /\ checkouts[c].pc = "idle"
    /\ \A b \in CheckoutSlots : b < c => checkouts[b].pc # "idle"
    /\ LET checked == CheckoutValidation(provider_name, payload, address)
           req == [IdleCheckout EXCEPT !.provider = provider_name,
                                       !.payload = payload,
                                       !.address = IF provider_name = "paddle"
                                                   THEN address ELSE "NULL"]
           created == provider_name = "paddle" /\ ResolveBillingAddress(address).created
       IN  IF checked # "ok"
           THEN /\ checkouts' = [checkouts EXCEPT ![c] =
                                    [req EXCEPT !.pc = "done", !.resp = checked]]
                /\ db' = db
           ELSE /\ db' = IF created
                         THEN Audit(db, payload.user_id, "billing_address_created", "NULL",
                                    <<"paddle_checkout">>)
                         ELSE db
                /\ checkouts' = [checkouts EXCEPT ![c] =
                      IF outcome = "ok"
                      THEN [req EXCEPT !.pc = "created", !.provider_called = TRUE,
                                       !.session = IF provider_name = "stripe"
                                                   THEN StripeRawSession(c, payload.planId)
                                                   ELSE PaddleRawSession(c, payload.planId)]
                      ELSE [req EXCEPT !.pc = "done", !.provider_called = TRUE,
                                       !.raised = outcome,
                                       !.resp = ProviderFailureStatus(outcome)]]
    /\ UNCHANGED <<stripe, deliveries, upgrade, cancels, now, calc, h_confirmed, skeleton, downgrades, verification, taxed>>

\* lines 722-749: db.add(record) and db.add(audit) of request req
StoredCheckout(dbv, req) ==
    LET amount_cents == PlanPrice(req.payload.planId, req.payload.interval)
        tax_details == calculate_tax(amount_cents, TAX_DEFAULT_RATE)
        record == [session_id |-> req.session.id, actor_id |-> req.payload.user_id,
                   raw_session_customer |-> RawSessionCustomer(req.session),
                   amount |-> tax_details.total_cents]
        db1 == [dbv EXCEPT !.checkout_records = Append(@, record)]
    IN  Audit(db1, req.payload.user_id, "create_" \o req.provider \o "_checkout",
              req.session.id, <<req.payload.planId, req.payload.interval>>)

\* lines 718-780: the CheckoutRecord, the PaymentAudit row and, for Paddle,
\* the organization's customer id, in one commit; then the response
CheckoutPersist(c) ==
    /\ checkouts[c].pc = "created"
    /\ LET req == checkouts[c]
           actor_id == req.payload.user_id
           db2 == StoredCheckout(db, req)
           org_id == IF req.provider = "paddle" THEN UserOrg(actor_id) ELSE "NULL"
           db3 == IF org_id # "NULL"
                  THEN [db2 EXCEPT !.organizations[org_id].paddle_customer_id =
                           OrStr(@, req.session.paddle_customer_id)]
                  ELSE db2
       IN  /\ db' = db3
           /\ checkouts' = [checkouts EXCEPT ![c] =
                                [req EXCEPT !.pc = "done", !.resp = "success"]]
    /\ UNCHANGED <<stripe, deliveries, upgrade, cancels, now, calc, h_confirmed, skeleton, downgrades, verification, taxed>>

-----------------------------------------------------------------------------
(* The statements that create the subscriptions row of an external id,      *)
(* one step per statement.  skeleton.rows is the subscriptions table with   *)
(* its serial id; key is stripe_subscription_id or paddle_subscription_id.  *)

MaxRacers == 3
Racers == 1..MaxRacers

\* seen: the id of the first SELECT; resolved: the sub_db_id the handler
\* continues with; inserted: whether it ran its INSERT
IdleRacer ==
    [pc |-> "idle", kind |-> "NULL", key |-> "NULL", ref |-> "NULL", actor |-> "NULL",
     inserted |-> FALSE, resolved |-> NoInt]

IdleSkeleton == [rows |-> {}, next_id |-> 1, racers |-> [h \in Racers |-> IdleRacer]]

\* the handlers and what each is given: the checkout session, the Stripe
\* customer, or the actor of the Paddle custom_data
SkeletonRequests ==
    {[kind |-> "checkout", key |-> "sub_a", ref |-> cs] : cs \in {"cs_1", "cs_2"}}
    \cup {[kind |-> k, key |-> "sub_a", ref |-> "cus_1"] : k \in {"subscription", "invoice"}}
    \cup {[kind |-> k, key |-> "psub_1", ref |-> a] :
             k \in {"paddle_subscription", "paddle_transaction"}, a \in {"u1", "NULL"}}

\* SELECT id FROM subscriptions WHERE <external id column> = :sid
SelectId(rows, key) ==
    LET hit == {r \in rows : r.key = key}
    IN  IF hit = {} THEN NoInt ELSE (CHOOSE r \in hit : TRUE).id

\* the INSERT without the unique index on the external id
InsertIgnoringConflict(rows, id, key, actor) == rows \cup {[id |-> id, key |-> key, actor |-> actor]}
\* INSERT INTO subscriptions ... ON CONFLICT (<external id column>) DO NOTHING,
\* and DO UPDATE of _upsert_subscription_strong, which keeps the row's id
InsertOnConflict(rows, id, key, actor) ==
    IF \E r \in rows : r.key = key THEN rows
    ELSE rows \cup {[id |-> id, key |-> key, actor |-> actor]}

SetRacer(h, racer) ==
    /\ skeleton' = [skeleton EXCEPT !.racers[h] = racer]
    /\ UNCHANGED <<db, stripe, deliveries, upgrade, cancels, now, calc, h_confirmed, checkouts, downgrades, verification, taxed>>

\* the handler is entered; checkout.session.completed reads its actor from
\* the CheckoutRecord of the session (lines 924-931)
RaceStart(h, req) ==
    /\ skeleton.racers[h].pc = "idle"
    /\ \A b \in Racers : b < h => skeleton.racers[b].pc # "idle"
    /\ LET actor == CASE req.kind = "checkout" -> CheckoutActorBySession(db, req.ref)
                      [] req.kind \in {"subscription", "invoice"} -> "NULL"
                      [] OTHER -> req.ref
           racer == [IdleRacer EXCEPT !.kind = req.kind, !.key = req.key, !.ref = req.ref,
                                      !.actor = actor]
       IN  SetRacer(h, IF req.kind = "checkout" /\ actor = "NULL"
                       THEN [racer EXCEPT !.pc = "done"]
                       ELSE [racer EXCEPT !.pc = "select"])

\* the first SELECT and the branch taken on its result
RaceSelect(h) ==
    /\ skeleton.racers[h].pc = "select"
    /\ LET racer == skeleton.racers[h]
           id == SelectId(skeleton.rows, racer.key)
           by_customer == CheckoutActorByCustomer(db, racer.ref)
       IN  SetRacer(h,
             CASE racer.kind = "checkout" ->
                    IF id # NoInt THEN [racer EXCEPT !.pc = "reselect"]
                    ELSE [racer EXCEPT !.pc = "insert"]
               [] racer.kind \in {"subscription", "invoice"} ->
                    IF id # NoInt THEN [racer EXCEPT !.pc = "done", !.resolved = id]
                    ELSE IF by_customer = "NULL" THEN [racer EXCEPT !.pc = "done"]
                    ELSE [racer EXCEPT !.pc = "insert", !.actor = by_customer]
               [] racer.kind = "paddle_transaction" ->
                    IF id # NoInt THEN [racer EXCEPT !.pc = "done", !.resolved = id]
                    ELSE [racer EXCEPT !.pc = "insert"]
               [] OTHER -> [racer EXCEPT !.pc = "insert"])

\* the INSERT and its commit; the sequence of the id column advances whether
\* or not the row is kept
RaceInsert(h) ==
    /\ skeleton.racers[h].pc = "insert"
    /\ LET racer == skeleton.racers[h]
       IN  skeleton' = [skeleton EXCEPT
                !.rows = InsertOnConflict(@, skeleton.next_id, racer.key, racer.actor),
                !.next_id = @ + 1,
                !.racers[h] = [racer EXCEPT !.pc = "reselect", !.inserted = TRUE]]
    /\ UNCHANGED <<db, stripe, deliveries, upgrade, cancels, now, calc, h_confirmed, checkouts, downgrades, verification, taxed>>

\* the SELECT of the id after the INSERT
RaceReselect(h) ==
    /\ skeleton.racers[h].pc = "reselect"
    /\ SetRacer(h, [skeleton.racers[h] EXCEPT !.pc = "done",
                       !.resolved = SelectId(skeleton.rows, skeleton.racers[h].key)])

-----------------------------------------------------------------------------
(* Initial state: user u1 of organization org1 has created checkout session  *)
(* cs_1 and paid it; Stripe holds subscription sub_a on price_1m with one    *)
(* paid invoice; no webhook has been delivered yet.                          *)

\* the billing period of the subscription at Stripe runs from 0 to MaxTime;
\* proration_behavior is that of the last Subscription.modify Stripe accepted
StripeSubscription(price) ==
    [status |-> "active", price |-> price, cancel_at_period_end |-> FALSE,
     current_period_start |-> 0, current_period_end |-> MaxTime, trial_end |-> NoInt,
     proration_behavior |-> "NULL"]

\* the invoice Stripe holds for the first period, paid at checkout
StripePaidInvoice ==
    [id |-> "in_1", status |-> "paid", amount_paid |-> 1020, currency |-> "usd",
     payment_intent |-> IntentRef("pi_1")]

EmptyDb ==
    [billing_events |-> {},
     subscriptions |-> << >>,
     invoices |-> << >>,
     payment_audit |-> EmptyBag,
     checkout_records |-> <<[session_id |-> "cs_1", actor_id |-> "u1",
                             raw_session_customer |-> "NULL", amount |-> 1020]>>,
     usage_counters |-> [o \in Orgs |-> [k \in UsageKeys |-> 0]],
     organizations |-> [o \in Orgs |-> [subscription_id |-> "NULL",
                                        paddle_customer_id |-> "NULL"]],
     scheduled_downgrades |-> << >>,
     cancellation_requests |-> EmptyBag]

InitStripe ==
    [subscriptions |-> [s \in {"sub_a"} |-> StripeSubscription("price_1m")],
     invoices |-> [s \in {"sub_a"} |-> <<StripePaidInvoice>>],
     refunds |-> {},
     calls |-> [invoice_list |-> 0, subscription_delete |-> 0, refund_create |-> 0,
                scheduled_swap |-> 0, subscription_modify |-> 0]]

NoCalc == [amount |-> NoInt, period_start |-> NoInt, period_end |-> NoInt,
           utcnow |-> NoInt, result |-> NoInt]

Init ==
    /\ db = EmptyDb
    /\ stripe = InitStripe
    /\ deliveries = [d \in Slots |-> IdleDelivery]
    /\ upgrade = IdleUpgrade
    /\ cancels = [c \in CancelSlots |-> IdleCancel]
    /\ now = 0
    /\ calc = NoCalc
    /\ h_confirmed = [s \in {"sub_a"} |-> "NULL"]
    /\ checkouts = [c \in CheckoutSlots |-> IdleCheckout]
    /\ skeleton = IdleSkeleton
    /\ downgrades = [r \in DowngradeSlots |-> IdleDowngrade]
    /\ verification = NoVerification
    /\ taxed = NoTax

Next ==
    \/ \E d \in Slots, e \in StripeEvents : StripeReceive(d, e)
    \/ \E d \in Slots : StripeRecord(d)
    \/ \E d \in Slots, modify_ok \in BOOLEAN, retrieve_ok \in BOOLEAN :
          StripeHandle(d, modify_ok, retrieve_ok)
    \/ \E price \in UpgradePrices, outcome \in {"ok", "modify_failed", "invoice_failed"} :
          UpgradeModify("sub_a", price, outcome)
    \/ UpgradePersist
    \/ \E org \in Orgs, key \in UsageKeys : UseResource(org, key)

Spec == Init /\ [][Next]_vars

\* the Paddle endpoint alone
NextPaddle ==
    \/ \E d \in Slots, e \in PaddleEvents : PaddleReceive(d, e)
    \/ \E d \in Slots, tx_detail \in TxDetails, pdf_url \in PdfUrls :
          PaddleHandle(d, tx_detail, pdf_url)

SpecPaddle == Init /\ [][NextPaddle]_vars

\* both webhook endpoints, each with two of its events
StripeCoreEvents == {evt_checkout, evt_invoice_paid}
PaddleCoreEvents == {pevt_sub_activated, pevt_txn_paid}

NextWebhooks ==
    \/ \E d \in Slots, e \in StripeCoreEvents : StripeReceive(d, e)
    \/ \E d \in Slots : StripeRecord(d)
    \/ \E d \in Slots, modify_ok \in BOOLEAN, retrieve_ok \in BOOLEAN :
          StripeHandle(d, modify_ok, retrieve_ok)
    \/ \E d \in Slots, e \in PaddleCoreEvents : PaddleReceive(d, e)
    \/ \E d \in Slots, tx_detail \in TxDetails, pdf_url \in PdfUrls :
          PaddleHandle(d, tx_detail, pdf_url)

SpecWebhooks == Init /\ [][NextWebhooks]_vars

\* verify_paddle_signature on its own
NextSignature ==
    \E raw \in VerifyBodies, secret \in PaddleSecrets, clock \in VerifyClocks :
       \E header \in VerifyHeaders(raw, clock, secret) : Verify(raw, header, secret, clock)

SpecSignature == Init /\ [][NextSignature]_vars

\* both endpoints, with handler steps that fail
NextFailures ==
    \/ \E d \in Slots, e \in StripeCoreEvents : StripeReceive(d, e)
    \/ \E d \in Slots : StripeRecord(d)
    \/ \E d \in Slots, modify_ok \in BOOLEAN, retrieve_ok \in BOOLEAN :
          StripeHandle(d, modify_ok, retrieve_ok)
    \/ \E d \in Slots, e \in PaddleLookupEvents : PaddleReceive(d, e)
    \/ \E d \in Slots, tx_detail \in TxDetails, pdf_url \in PdfUrls :
          PaddleHandle(d, tx_detail, pdf_url)

SpecFailures == Init /\ [][NextFailures]_vars

\* the Paddle endpoint with the transactions of one subscription
NextTransactions ==
    \/ \E d \in Slots, e \in PaddleTransactionEvents : PaddleReceive(d, e)
    \/ \E d \in Slots, tx_detail \in TxDetails, pdf_url \in PdfUrls :
          PaddleHandle(d, tx_detail, pdf_url)

SpecTransactions == Init /\ [][NextTransactions]_vars

\* PUT /subscription with each action, for the subscription Stripe holds:
\* before its checkout has been handled, after it, and after the checkout of
\* a user who belongs to no organization
CheckoutBy(actor_id) ==
    HandleStripeEvent([EmptyDb EXCEPT !.billing_events = {evt_checkout.id},
                                      !.checkout_records[1].actor_id = actor_id],
                      InitStripe, evt_checkout, TRUE, TRUE).db

InitCycle ==
    /\ db \in {EmptyDb, CheckoutBy("u1"), CheckoutBy("u2")}
    /\ stripe = InitStripe
    /\ deliveries = [d \in Slots |-> IdleDelivery]
    /\ upgrade = IdleUpgrade
    /\ cancels = [c \in CancelSlots |-> IdleCancel]
    /\ now = 0
    /\ calc = NoCalc
    /\ h_confirmed = [s \in {"sub_a"} |-> "NULL"]
    /\ checkouts = [c \in CheckoutSlots |-> IdleCheckout]
    /\ skeleton = IdleSkeleton
    /\ downgrades = [r \in DowngradeSlots |-> IdleDowngrade]
    /\ verification = NoVerification
    /\ taxed = NoTax

\* the invoice events of the subscription, whoever its contact is
NextNotify ==
    \/ \E d \in Slots, e \in NotifyEvents : StripeReceive(d, e)
    \/ \E d \in Slots : StripeRecord(d)
    \/ \E d \in Slots, modify_ok \in BOOLEAN, retrieve_ok \in BOOLEAN :
          StripeHandle(d, modify_ok, retrieve_ok)

SpecNotify == InitCycle /\ [][NextNotify]_vars

UpgradeOutcomes == {"ok", "card_declined", "modify_failed", "invoice_failed"}
CyclePrices == {"price_1m", "price_1y", "price_2y"}

NextCycle ==
    \/ \E price \in CyclePrices, outcome \in UpgradeOutcomes : CycleSwitch("sub_a", price, outcome)
    \/ \E price \in UpgradePrices, outcome \in UpgradeOutcomes :
          UpgradeModify("sub_a", price, outcome)
    \/ UpgradePersist
    \/ \E price \in DowngradePrices : DowngradeSchedule("sub_a", price)

SpecCycle == InitCycle /\ [][NextCycle]_vars

\* a Paddle subscription through its statuses next to a Stripe checkout
NextStatus ==
    \/ \E d \in Slots : StripeReceive(d, evt_checkout)
    \/ \E d \in Slots : StripeRecord(d)
    \/ \E d \in Slots, modify_ok \in BOOLEAN, retrieve_ok \in BOOLEAN :
          StripeHandle(d, modify_ok, retrieve_ok)
    \/ \E d \in Slots, e \in PaddleStatusEvents : PaddleReceive(d, e)
    \/ \E d \in Slots, tx_detail \in TxDetails, pdf_url \in PdfUrls :
          PaddleHandle(d, tx_detail, pdf_url)

SpecStatus == Init /\ [][NextStatus]_vars

\* both webhook endpoints from the arrival of the request, one event each
NextSigned ==
    \/ \E d \in Slots, e \in {evt_checkout}, parse_ok \in BOOLEAN :
          \E header \in SignatureHeaders(e.id, now, "whsec_stripe") :
             StripeWebhookRequest(d, e, header, parse_ok)
    \/ \E d \in Slots : StripeRecord(d)
    \/ \E d \in Slots, modify_ok \in BOOLEAN, retrieve_ok \in BOOLEAN :
          StripeHandle(d, modify_ok, retrieve_ok)
    \/ \E d \in Slots, e \in {pevt_sub_activated}, secret \in PaddleSecrets,
          parse_ok \in BOOLEAN :
          \E header \in PaddleSignatureHeaders(e.id, now, secret) :
             PaddleWebhookRequest(d, e, header, secret, parse_ok)
    \/ \E d \in Slots, tx_detail \in TxDetails, pdf_url \in PdfUrls :
          PaddleHandle(d, tx_detail, pdf_url)

SpecSigned == Init /\ [][NextSigned]_vars

\* immediate cancellation, starting once checkout.session.completed has been
\* handled and reconciled: the subscription is stored, active and linked
AfterCheckout ==
    HandleStripeEvent([EmptyDb EXCEPT !.billing_events = {evt_checkout.id}],
                      InitStripe, evt_checkout, TRUE, TRUE).db

InitCancel ==
    /\ db = AfterCheckout
    /\ stripe = InitStripe
    /\ deliveries = [d \in Slots |-> IdleDelivery]
    /\ upgrade = IdleUpgrade
    /\ cancels = [c \in CancelSlots |-> IdleCancel]
    /\ now = 0
    /\ calc = NoCalc
    /\ h_confirmed = [s \in {"sub_a"} |-> "p1"]
    /\ checkouts = [c \in CheckoutSlots |-> IdleCheckout]
    /\ skeleton = IdleSkeleton
    /\ downgrades = [r \in DowngradeSlots |-> IdleDowngrade]
    /\ verification = NoVerification
    /\ taxed = NoTax

RefundInputs == {"full", "prorated", "none", "NULL"}

NextCancel ==
    \/ \E c \in CancelSlots, refund \in RefundInputs : CancelStart(c, "u1", refund)
    \/ \E c \in CancelSlots, listing \in ListOutcomes, delete_ok \in BOOLEAN,
          refund_ok \in BOOLEAN : CancelProvider(c, listing, delete_ok, refund_ok)
    \/ \E c \in CancelSlots : CancelPersist(c, "u1")
    \/ Tick

SpecCancel == InitCancel /\ [][NextCancel]_vars

\* an invoice that is open, part of it paid
StripeOpenInvoice ==
    [id |-> "in_2", status |-> "open", amount_paid |-> 500, currency |-> "usd",
     payment_intent |-> IntentRef("pi_2")]

\* the paid invoice without a payment intent, and with the expanded object
StripeUnlinkedInvoice == [StripePaidInvoice EXCEPT !.payment_intent = NoIntent]
StripeExpandedInvoice == [StripePaidInvoice EXCEPT !.payment_intent = IntentObject("pi_1")]

\* the invoices Stripe may hold for the subscription, newest first
InvoiceLists ==
    {<< >>, <<StripePaidInvoice>>, <<StripeUnlinkedInvoice>>, <<StripeExpandedInvoice>>,
     <<StripeOpenInvoice>>, <<StripeOpenInvoice, StripePaidInvoice>>}

\* immediate cancellation of the stored subscription, whatever invoices
\* Stripe holds for it
InitRefund ==
    /\ db = AfterCheckout
    /\ stripe \in {[InitStripe EXCEPT !.invoices["sub_a"] = invoices] : invoices \in InvoiceLists}
    /\ deliveries = [d \in Slots |-> IdleDelivery]
    /\ upgrade = IdleUpgrade
    /\ cancels = [c \in CancelSlots |-> IdleCancel]
    /\ now = 0
    /\ calc = NoCalc
    /\ h_confirmed = [s \in {"sub_a"} |-> "p1"]
    /\ checkouts = [c \in CheckoutSlots |-> IdleCheckout]
    /\ skeleton = IdleSkeleton
    /\ downgrades = [r \in DowngradeSlots |-> IdleDowngrade]
    /\ verification = NoVerification
    /\ taxed = NoTax

NextRefund ==
    \/ \E c \in CancelSlots, refund \in RefundInputs \cup {"partial"} : CancelStart(c, "u1", refund)
    \/ \E c \in CancelSlots, listing \in ListOutcomes, delete_ok \in BOOLEAN,
          refund_ok \in BOOLEAN : CancelProvider(c, listing, delete_ok, refund_ok)
    \/ \E c \in CancelSlots : CancelPersist(c, "u1")
    \/ Tick

SpecRefund == InitRefund /\ [][NextRefund]_vars

\* immediate cancellations that are tried again: one attempt after another,
\* each with a refund asked for, where a provider call or the local
\* transaction may fail and time passes between the attempts
NextRetry ==
    \/ \E c \in {b \in CancelSlots : \A a \in CancelSlots : cancels[a].pc \in {"idle", "done"}},
          refund \in {"full", "prorated"} : CancelStart(c, "u1", refund)
    \/ \E c \in CancelSlots, listing \in ListOutcomes, delete_ok \in BOOLEAN,
          refund_ok \in BOOLEAN : CancelProvider(c, listing, delete_ok, refund_ok)
    \/ \E c \in CancelSlots : CancelPersist(c, "u1")
    \/ \E c \in CancelSlots : CancelPersistFails(c)
    \/ Tick

SpecRetry == InitCancel /\ [][NextRetry]_vars

\* a scheduled downgrade and the customer.subscription.updated events that
\* follow it, starting from the stored, active subscription
NextDowngrade ==
    \/ \E d \in Slots, e \in DowngradeEvents : StripeReceive(d, e)
    \/ \E d \in Slots : StripeRecord(d)
    \/ \E d \in Slots, modify_ok \in BOOLEAN, retrieve_ok \in BOOLEAN :
          StripeHandle(d, modify_ok, retrieve_ok)
    \/ \E price \in DowngradePrices : DowngradeSchedule("sub_a", price)

SpecDowngrade == InitCancel /\ [][NextDowngrade]_vars

-----------------------------------------------------------------------------
(* One call of _calculate_prorated_amount on inputs drawn from bounded sets *)

ProrationAmounts == {NoInt, 0, 90, 10000}
ProrationTimes == {NoInt} \cup (0..MaxClock)

\* 10000 cents, a period of 30 days, the clock 15 days into it (in seconds)
HalfPeriodCase ==
    [amount |-> 10000, period_start |-> 0, period_end |-> 2592000,
     utcnow |-> 1296000, result |-> NoInt]

InitProration ==
    /\ db = EmptyDb
    /\ stripe = InitStripe
    /\ deliveries = [d \in Slots |-> IdleDelivery]
    /\ upgrade = IdleUpgrade
    /\ cancels = [c \in CancelSlots |-> IdleCancel]
    /\ now = 0
    /\ h_confirmed = [s \in {"sub_a"} |-> "NULL"]
    /\ checkouts = [c \in CheckoutSlots |-> IdleCheckout]
    /\ skeleton = IdleSkeleton
    /\ downgrades = [r \in DowngradeSlots |-> IdleDowngrade]
    /\ verification = NoVerification
    /\ taxed = NoTax
    /\ calc \in [amount : ProrationAmounts, period_start : ProrationTimes,
                 period_end : ProrationTimes, utcnow : 0..MaxClock,
                 result : {NoInt}] \cup {HalfPeriodCase}

Calculate ==
    /\ calc.result = NoInt
    /\ calc' = [calc EXCEPT !.result =
                   _calculate_prorated_amount(calc.amount, calc.period_start,
                                              calc.period_end, calc.utcnow)]
    /\ UNCHANGED <<db, stripe, deliveries, upgrade, cancels, now, h_confirmed, checkouts, skeleton, downgrades, verification, taxed>>

NextProration == Calculate

SpecProration == InitProration /\ [][NextProration]_vars

\* downgrade requests statement by statement, next to the renewal events
NextDowngradeRace ==
    \/ \E r \in DowngradeSlots, price \in DowngradePrices : DowngradeSelect(r, "sub_a", price)
    \/ \E r \in DowngradeSlots : DowngradeWrite(r)
    \/ \E d \in Slots : StripeReceive(d, evt_sub_renewed)
    \/ \E d \in Slots : StripeRecord(d)
    \/ \E d \in Slots, modify_ok \in BOOLEAN, retrieve_ok \in BOOLEAN :
          StripeHandle(d, modify_ok, retrieve_ok)

SpecDowngradeRace == InitCancel /\ [][NextDowngradeRace]_vars

\* cycle-end cancellation requests, next to the customer.subscription.updated
\* events Stripe sends about the subscription
NextCycleEnd ==
    \/ \E c \in CancelSlots, actor_id \in {"u1", "u2"} : CycleEndStart(c, actor_id)
    \/ \E c \in CancelSlots, modify_ok \in BOOLEAN : CycleEndModify(c, modify_ok)
    \/ \E c \in CancelSlots : CycleEndPersist(c, "u1")
    \/ \E d \in Slots : StripeReceive(d, evt_sub_updated)
    \/ \E d \in Slots : StripeRecord(d)
    \/ \E d \in Slots, modify_ok \in BOOLEAN, retrieve_ok \in BOOLEAN :
          StripeHandle(d, modify_ok, retrieve_ok)

SpecCycleEnd == InitCancel /\ [][NextCycleEnd]_vars

\* the stored subscription while its price at Stripe changes, to the price of
\* another plan or to a price no plan has
\* a scheduled downgrade, a cycle-end cancellation and the
\* customer.subscription.updated event whose payload was built before the
\* cancellation, delivered at any moment

NextStale ==
    \/ \E price \in DowngradePrices : DowngradeSchedule("sub_a", price)
    \/ \E c \in CancelSlots : CycleEndStart(c, "u1")
    \/ \E c \in CancelSlots, modify_ok \in BOOLEAN : CycleEndModify(c, modify_ok)
    \/ \E c \in CancelSlots : CycleEndPersist(c, "u1")
    \/ \E d \in Slots : StripeReceive(d, evt_sub_updated)
    \/ \E d \in Slots : StripeRecord(d)
    \/ \E d \in Slots, modify_ok \in BOOLEAN, retrieve_ok \in BOOLEAN :
          StripeHandle(d, modify_ok, retrieve_ok)

SpecStale == InitCancel /\ [][NextStale]_vars

\* the billing contact has replaced subscription sub_a by sub_b: a second
\* checkout session was stored and its checkout.session.completed event
\* handled and reconciled (lines 1229-1324: sub_b stored as sub_a was, sub_a
\* set inactive, the organization pointed to sub_b)
SupersededDb ==
    [AfterCheckout EXCEPT
        !.checkout_records = Append(@, [session_id |-> "cs_2", actor_id |-> "u1",
                                        raw_session_customer |-> "NULL", amount |-> 1020]),
        !.billing_events = @ \cup {evt_checkout_new.id},
        !.subscriptions = Put([@ EXCEPT !["sub_a"].status = "inactive"], "sub_b", @["sub_a"]),
        !.organizations["org1"].subscription_id = "sub_b",
        !.payment_audit = @ (+) SetToBag({[actor_id |-> "u1", action |-> "WEBHOOK_RECEIVED",
                                           session_id |-> "cs_2",
                                           details |-> <<"checkout.session.completed",
                                                         evt_checkout_new.id>>]})]

\* Stripe still holds sub_a, active or canceled, next to sub_b
SupersededStripe(old_status) ==
    [InitStripe EXCEPT
        !.subscriptions = Put([@ EXCEPT !["sub_a"].status = old_status],
                              "sub_b", StripeSubscription("price_1m")),
        !.invoices = Put(@, "sub_b", <<StripePaidInvoice>>)]

InitSuperseded ==
    /\ db = SupersededDb
    /\ \E old_status \in {"active", "canceled"} : stripe = SupersededStripe(old_status)
    /\ deliveries = [d \in Slots |-> IdleDelivery]
    /\ upgrade = IdleUpgrade
    /\ cancels = [c \in CancelSlots |-> IdleCancel]
    /\ now = 0
    /\ calc = NoCalc
    /\ h_confirmed = [s \in {"sub_a"} |-> "p1"]
    /\ checkouts = [c \in CheckoutSlots |-> IdleCheckout]
    /\ skeleton = IdleSkeleton
    /\ downgrades = [r \in DowngradeSlots |-> IdleDowngrade]
    /\ verification = NoVerification
    /\ taxed = NoTax

NextSuperseded ==
    \/ \E d \in Slots, e \in LateEvents : StripeReceive(d, e)
    \/ \E d \in Slots : StripeRecord(d)
    \/ \E d \in Slots, modify_ok \in BOOLEAN, retrieve_ok \in BOOLEAN :
          StripeHandle(d, modify_ok, retrieve_ok)

SpecSuperseded == InitSuperseded /\ [][NextSuperseded]_vars

ProviderPrices == {"price_1m", "price_2y", "price_legacy"}

NextReprice ==
    \/ \E price \in ProviderPrices : ProviderPriceChange("sub_a", price)
    \/ \E d \in Slots, e \in {evt_sub_updated, evt_invoice_paid} : StripeReceive(d, e)
    \/ \E d \in Slots : StripeRecord(d)
    \/ \E d \in Slots, modify_ok \in BOOLEAN, retrieve_ok \in BOOLEAN :
          StripeHandle(d, modify_ok, retrieve_ok)

SpecReprice == InitCancel /\ [][NextReprice]_vars

-----------------------------------------------------------------------------
(* Checkout creation alone: no checkout has been created yet               *)

NoCheckoutsDb == [EmptyDb EXCEPT !.checkout_records = << >>]

InitCheckout ==
    /\ db = NoCheckoutsDb
    /\ stripe = InitStripe
    /\ deliveries = [d \in Slots |-> IdleDelivery]
    /\ upgrade = IdleUpgrade
    /\ cancels = [c \in CancelSlots |-> IdleCancel]
    /\ now = 0
    /\ calc = NoCalc
    /\ h_confirmed = [s \in {"sub_a"} |-> "NULL"]
    /\ checkouts = [c \in CheckoutSlots |-> IdleCheckout]
    /\ skeleton = IdleSkeleton
    /\ downgrades = [r \in DowngradeSlots |-> IdleDowngrade]
    /\ verification = NoVerification
    /\ taxed = NoTax

NextCheckout ==
    \/ \E c \in {b \in CheckoutSlots : checkouts[b].pc = "idle"} :
          \E provider_name \in {"stripe", "paddle"}, payload \in CheckoutPayloads,
             address \in AddressInputs, outcome \in ProviderOutcomes :
             CheckoutRequest(c, provider_name, payload, address, outcome)
    \/ \E c \in CheckoutSlots : CheckoutPersist(c)

SpecCheckout == InitCheckout /\ [][NextCheckout]_vars

\* calculate_tax on its own, and in the Stripe checkouts of the active plans
TaxPayloads ==
    [planId : {"p1", "p2"}, interval : {"monthly", "yearly"}, user_id : {"u1"},
     email : {"u@example.org"}]

NextTax ==
    \/ \E base_amount_cents \in TaxBases, rate \in TaxRates : TaxCalculate(base_amount_cents, rate)
    \/ \E c \in {b \in CheckoutSlots : checkouts[b].pc = "idle"} :
          \E payload \in TaxPayloads : CheckoutRequest(c, "stripe", payload, "NULL", "ok")
    \/ \E c \in CheckoutSlots : CheckoutPersist(c)

SpecTax == InitCheckout /\ [][NextTax]_vars

-----------------------------------------------------------------------------
(* Stripe checkouts followed by the webhook events of the new subscription *)

OnboardingPayloads ==
    [planId : {"NULL", "p1"}, interval : {"monthly"}, user_id : {"u1", "u2"},
     email : {"u@example.org"}]

NextOnboarding ==
    \/ \E c \in CheckoutSlots, payload \in OnboardingPayloads,
          outcome \in {"ok", "exception"} :
          CheckoutRequest(c, "stripe", payload, "none", outcome)
    \/ \E c \in CheckoutSlots : CheckoutPersist(c)
    \/ \E d \in Slots, e \in OnboardingEvents : StripeReceive(d, e)
    \/ \E d \in Slots : StripeRecord(d)
    \/ \E d \in Slots, modify_ok \in BOOLEAN, retrieve_ok \in BOOLEAN :
          StripeHandle(d, modify_ok, retrieve_ok)

SpecOnboarding == InitCheckout /\ [][NextOnboarding]_vars

\* the skeleton statements of concurrent handlers, after two Stripe checkouts
\* were stored
TwoCheckoutsDb ==
    LET stored(c, uid) == [IdleCheckout EXCEPT !.provider = "stripe",
                              !.payload = [planId |-> "p1", interval |-> "monthly",
                                           user_id |-> uid, email |-> "u@example.org"],
                              !.session = StripeRawSession(c, "p1")]
    IN  StoredCheckout(StoredCheckout(NoCheckoutsDb, stored(1, "u1")), stored(2, "u2"))

InitRace ==
    /\ db = TwoCheckoutsDb
    /\ stripe = InitStripe
    /\ deliveries = [d \in Slots |-> IdleDelivery]
    /\ upgrade = IdleUpgrade
    /\ cancels = [c \in CancelSlots |-> IdleCancel]
    /\ now = 0
    /\ calc = NoCalc
    /\ h_confirmed = [s \in {"sub_a"} |-> "NULL"]
    /\ checkouts = [c \in CheckoutSlots |-> IdleCheckout]
    /\ skeleton = IdleSkeleton
    /\ downgrades = [r \in DowngradeSlots |-> IdleDowngrade]
    /\ verification = NoVerification
    /\ taxed = NoTax

NextRace ==
    \/ \E h \in Racers, req \in SkeletonRequests : RaceStart(h, req)
    \/ \E h \in Racers : RaceSelect(h)
    \/ \E h \in Racers : RaceInsert(h)
    \/ \E h \in Racers : RaceReselect(h)

SpecRace == InitRace /\ [][NextRace]_vars

\* the inputs on which the code returns 0 before dividing
ProrationZeroCase(c) ==
    \/ c.amount = NoInt \/ c.amount = 0
    \/ c.period_start = NoInt \/ c.period_end = NoInt
    \/ c.period_end - c.period_start <= 0
    \/ c.period_end - c.utcnow <= 0

RECURSIVE GCD(_, _)
GCD(a, b) == IF b = 0 THEN a ELSE GCD(b, a % b)

\* floor(amount_paid * remaining / total), exactly (remaining / total in
\* lowest terms, so that the product stays within 32-bit integers)
ProrationFloor(c) ==
    LET remaining == c.period_end - c.utcnow
        total == c.period_end - c.period_start
        g == GCD(remaining, total)
    IN  (c.amount * (remaining \div g)) \div (total \div g)

\* C10 as stated: within the period the result is floor(amount_paid * remaining
\* / total); it is 0 when an input is missing, total <= 0 or remaining <= 0;
\* it lies in [0, amount_paid]; 10000 cents half way through 30 days gives 5000.
C10_AsStated ==
    calc.result # NoInt =>
        /\ ProrationZeroCase(calc) => calc.result = 0
        /\ (~ProrationZeroCase(calc) /\ calc.utcnow >= calc.period_start) =>
              /\ calc.result = ProrationFloor(calc)
              /\ 0 <= calc.result /\ calc.result <= calc.amount

\* C10, amended: the result is the truncated double-precision product, which
\* is floor(amount_paid * remaining / total) capped at amount_paid or one cent
\* less, never negative and never above amount_paid; it is 0 when an input is
\* missing, total <= 0 or remaining <= 0; 10000 cents at 15 of 30 days is 5000.
C10_Prorated ==
    calc.result # NoInt =>
        /\ ProrationZeroCase(calc) => calc.result = 0
        /\ ~ProrationZeroCase(calc) =>
              LET capped == Min(ProrationFloor(calc), calc.amount)
              IN  /\ calc.result \in {capped - 1, capped}
                  /\ 0 <= calc.result /\ calc.result <= calc.amount
        /\ (calc.amount = 10000 /\ calc.period_start = 0 /\ calc.period_end = 2592000
              /\ calc.utcnow = 1296000) => calc.result = 5000

\* 90 cents with 7 of 10 time units left: the exact quotient is 63, the call
\* has returned 62
C10_Witness ==
    /\ calc.amount = 90 /\ calc.period_start = 0 /\ calc.period_end = 10
    /\ calc.utcnow = 3
    /\ calc.result = 62
    /\ ProrationFloor(calc) = 63

-----------------------------------------------------------------------------
(* Invoice rows under the Stripe webhook (Spec)                             *)

\* C4: once an invoice row has status paid, no step changes its status to a
\* non-paid value.
C4_PaidNeverRegresses ==
    [][\A i \in DOMAIN db.invoices :
          db.invoices[i].status = "paid" => db'.invoices[i].status = "paid"]_vars

InvoiceStringFields(row) == <<row.hosted_invoice_url, row.invoice_pdf_url>>

InvoiceIntFields(row) ==
    <<row.period_start, row.period_end, row.subtotal_cents, row.tax_cents,
      row.total_cents, row.tax_rate_percent>>

\* C5: re-applying an invoice event to an existing row never replaces a stored
\* non-null URL, period bound, subtotal, tax, total or tax rate with null.
C5_NeverNullsStoredField ==
    [][\A i \in DOMAIN db.invoices :
          /\ \A f \in 1..2 : InvoiceStringFields(db.invoices[i])[f] # "NULL"
                                => InvoiceStringFields(db'.invoices[i])[f] # "NULL"
          /\ \A f \in 1..6 : InvoiceIntFields(db.invoices[i])[f] # NoInt
                                => InvoiceIntFields(db'.invoices[i])[f] # NoInt]_vars

-----------------------------------------------------------------------------
(* Usage counters under the Stripe webhook and the upgrade action (Spec)    *)

\* the step in which delivery d of the Stripe webhook runs lines 843-1378
IsStripeHandleStep(d) ==
    /\ deliveries[d].endpoint = "stripe"
    /\ deliveries[d].pc = "recorded"
    /\ deliveries'[d].pc = "done"

SubscriptionOrg(subs, sid) == UserOrg(subs[sid].billing_contact_user_id)

\* C6: when a webhook has run its reconcile block for a subscription whose
\* plan limit for a usage key is higher than under the plan the previous
\* reconcile left, the organization's counter for that key is 0, whether the
\* webhook or the upgrade action stored the new plan first.
C6_RaisedLimitResetsCounter ==
    [][\A d \in Slots :
          (IsStripeHandleStep(d) /\ deliveries'[d].reconciled # "NULL") =>
              LET sid == deliveries'[d].reconciled
                  old == h_confirmed[sid]
                  new == db'.subscriptions[sid].plan_id
                  org == SubscriptionOrg(db'.subscriptions, sid)
              IN  \A key \in UsageKeys :
                     (old # "NULL" /\ new # "NULL" /\ org # "NULL"
                        /\ PlanLimit(old, key) < PlanLimit(new, key))
                     => db'.usage_counters[org][key] = 0]_vars

\* C7: a Stripe webhook changes a usage counter only if the subscription had
\* no plan before the event or the plan stored before it has a strictly lower
\* limit for that key than the plan stored after it.
C7_CounterChangesOnlyOnRaisedLimit ==
    [][\A d \in Slots : IsStripeHandleStep(d) =>
          \A org \in Orgs, key \in UsageKeys :
             db'.usage_counters[org][key] # db.usage_counters[org][key] =>
                \E sid \in DOMAIN db'.subscriptions :
                   /\ SubscriptionOrg(db'.subscriptions, sid) = org
                   /\ \/ sid \notin DOMAIN db.subscriptions
                      \/ db.subscriptions[sid].plan_id = "NULL"
                      \/ PlanLimit(db.subscriptions[sid].plan_id, key)
                            < PlanLimit(db'.subscriptions[sid].plan_id, key)]_vars

-----------------------------------------------------------------------------
(* Event idempotency (SpecWebhooks)                                         *)

IsReplayAnswer(d) ==
    /\ deliveries'[d].pc = "done"
    /\ deliveries'[d].resp = "already_processed"
    /\ db' = db

\* C1: on either endpoint, a delivery of an event whose id is already in
\* billing_events is answered "already_processed" and leaves every table as
\* it was.
C1_ReplayIsNoOp ==
    [][\A d \in Slots :
          /\ \A e \in StripeEvents :
                (StripeReceive(d, e) /\ e.id \in db.billing_events) => IsReplayAnswer(d)
          /\ \A e \in PaddleEvents :
                (PaddleReceive(d, e) /\ e.id \in db.billing_events) => IsReplayAnswer(d)]_vars

\* a Stripe replay and a Paddle replay have both been answered, every event
\* handled so far has exactly one audit row
C1_Witness ==
    /\ \E d \in Slots : /\ deliveries[d].endpoint = "stripe"
                        /\ deliveries[d].pc = "done"
                        /\ deliveries[d].resp = "already_processed"
    /\ \E d \in Slots : /\ deliveries[d].endpoint = "paddle"
                        /\ deliveries[d].pc = "done"
                        /\ deliveries[d].resp = "already_processed"
    /\ db.billing_events # {}
    /\ BagCardinality(db.payment_audit) = Cardinality(db.billing_events)

\* C2: concurrent deliveries of one event id: no delivery ends in an error
\* response, and the event's effects are applied at most once (one audit row
\* per event).
C2_DuplicatesShortCircuit ==
    /\ \A d \in Slots : deliveries[d].resp \notin {"error_500", "error_404"}
    /\ \A a \in BagToSet(db.payment_audit) : CopiesIn(a, db.payment_audit) = 1

-----------------------------------------------------------------------------
(* Paddle subscription status (SpecPaddle)                                  *)

\* the status _upsert_subscription_strong is called with for event e
PaddleEventStatus(e) == Lower(OrStr(e.data.status, LastSegment(e.type)))

\* a subscription event with status pending, or a transaction event
IsPendingOrTransaction(e) ==
    \/ IsPaddleSubscriptionEvent(e.type) /\ PaddleEventStatus(e) = "pending"
    \/ IsPaddleTransactionEvent(e.type)

IsPaddleHandleStep(d) ==
    /\ deliveries[d].endpoint = "paddle"
    /\ deliveries[d].pc = "recorded"
    /\ deliveries'[d].pc = "done"

\* C3: handling a Paddle subscription event with status pending, or a
\* transaction event, leaves every Paddle subscription row that is active
\* with status active.
C3_ActiveNotRegressed ==
    [][\A d \in Slots :
          (IsPaddleHandleStep(d)
             /\ IsPendingOrTransaction(PaddleEventById(deliveries[d].event))) =>
              \A sid \in DOMAIN db.subscriptions :
                 (db.subscriptions[sid].provider = "paddle"
                    /\ db.subscriptions[sid].status = "active")
                 => db'.subscriptions[sid].status = "active"]_vars

\* psub_1 is active with the interval a later pending event without
\* custom_data wrote over the activation's "yearly"; both pending events and
\* the transaction have been handled
C3_Witness ==
    /\ "psub_1" \in DOMAIN db.subscriptions
    /\ db.subscriptions["psub_1"].status = "active"
    /\ db.subscriptions["psub_1"].interval = "monthly"
    /\ {"pevt_sub_activated", "pevt_sub_created", "pevt_sub_updated", "pevt_txn_paid"}
          \subseteq db.billing_events
    /\ \A d \in Slots : Free(d)

-----------------------------------------------------------------------------
(* Immediate cancellation (SpecCancel)                                      *)

\* C8: an immediate-cancel request for a subscription that already has an
\* immediate cancellation_requests row finishes in its first step: no
\* provider call, nothing written, and the response carries the refund
\* amount, currency, refund mode and refund id of a stored row.
C8_SecondCancelReturnsStored ==
    [][\A c \in CancelSlots :
          LET org_id == UserOrg("u1")
              sid == db.organizations[org_id].subscription_id
              rows == {r \in BagToSet(db.cancellation_requests) :
                          r.subscription_id = sid /\ r.mode = "immediate"}
          IN  (cancels[c].pc = "idle" /\ cancels'[c].pc # "idle" /\ rows # {}) =>
                 /\ cancels'[c].pc = "done"
                 /\ stripe' = stripe
                 /\ db' = db
                 /\ \E r \in rows :
                       /\ cancels'[c].resp.status = "ok"
                       /\ cancels'[c].resp.refund_amount_cents = r.refund_amount_cents
                       /\ cancels'[c].resp.currency = r.refund_currency
                       /\ cancels'[c].resp.refund_mode = r.refund_mode
                       /\ cancels'[c].resp.stripe_refund_id = r.stripe_refund_id]_vars

\* both requests are answered with the same refund of the whole invoice, after
\* one Subscription.delete, one Refund.create and one stored row
C8_Witness ==
    /\ cancels[1].pc = "done" /\ cancels[2].pc = "done"
    /\ cancels[1].resp = cancels[2].resp
    /\ cancels[1].resp.status = "ok"
    /\ cancels[1].resp.refund_amount_cents = StripePaidInvoice.amount_paid
    /\ cancels[1].resp.stripe_refund_id # "NULL"
    /\ stripe.calls.subscription_delete = 1
    /\ stripe.calls.refund_create = 1
    /\ BagCardinality(db.cancellation_requests) = 1

\* C9: when two immediate-cancel requests with full refund have both been
\* answered with a refund, Stripe has received one Subscription.delete, holds
\* one refund, one immediate cancellation_requests row is stored, and the two
\* responses carry the same amount and the same refund id.
C9_ConcurrentCancelsActOnce ==
    (/\ \A c \in {1, 2} : /\ cancels[c].pc = "done"
                          /\ cancels[c].resp.status = "ok"
                          /\ cancels[c].resp.refund_mode = "full"
                          /\ cancels[c].resp.refund_amount_cents > 0)
    => /\ stripe.calls.subscription_delete = 1
       /\ Cardinality(stripe.refunds) = 1
       /\ BagCardinality(db.cancellation_requests) = 1
       /\ cancels[1].resp.refund_amount_cents = cancels[2].resp.refund_amount_cents
       /\ cancels[1].resp.stripe_refund_id = cancels[2].resp.stripe_refund_id

-----------------------------------------------------------------------------
(* Scheduled downgrades (SpecDowngrade)                                     *)

\* the scheduled_downgrades row of subscription sid, "NULL" when there is none
PendingTarget(dbv, sid) ==
    IF PendingDowngrade(dbv.scheduled_downgrades, sid) = 0 THEN "NULL"
    ELSE dbv.scheduled_downgrades[PendingDowngrade(dbv.scheduled_downgrades, sid)].target_price_id

\* C11 as stated: with a ScheduledDowngrade row stored, a
\* customer.subscription.updated event with cancel_at_period_end = true leaves
\* the row and issues no modify call; one with cancel_at_period_end = false
\* issues the swap to the target price without proration and deletes the row;
\* with no row stored no swap is issued.
C11_AsStated ==
    [][\A d \in Slots : IsStripeHandleStep(d) =>
          LET e == StripeEventById(deliveries[d].event)
              sid == e.data.id
              target == PendingTarget(db, sid)
          IN  /\ (target # "NULL" /\ e.data.cancel_at_period_end) =>
                    /\ PendingTarget(db', sid) = target
                    /\ stripe'.calls.scheduled_swap = stripe.calls.scheduled_swap
              /\ (target # "NULL" /\ ~e.data.cancel_at_period_end) =>
                    /\ stripe'.calls.scheduled_swap = stripe.calls.scheduled_swap + 1
                    /\ stripe'.subscriptions[sid].price = target
                    /\ stripe'.subscriptions[sid].proration_behavior = "none"
                    /\ PendingTarget(db', sid) = "NULL"
              /\ target = "NULL" =>
                    stripe'.calls.scheduled_swap = stripe.calls.scheduled_swap]_vars

\* C11, amended: with a ScheduledDowngrade row stored, an event with
\* cancel_at_period_end = true, or one whose payload carries no items, leaves
\* the row and issues no modify call; an event with cancel_at_period_end =
\* false and items issues one modify call for the target price without
\* proration; when Stripe accepts it the row is deleted, when the call fails
\* the row and the Stripe subscription stay as they were; with no row stored
\* no modify call is issued.
C11_ScheduledDowngrade ==
    [][\A d \in Slots, modify_ok \in BOOLEAN, retrieve_ok \in BOOLEAN :
          StripeHandle(d, modify_ok, retrieve_ok) =>
          LET e == StripeEventById(deliveries[d].event)
              sid == e.data.id
              target == PendingTarget(db, sid)
              waits == e.data.cancel_at_period_end \/ ~e.data.has_items
          IN  /\ (target # "NULL" /\ waits) =>
                    /\ PendingTarget(db', sid) = target
                    /\ stripe' = stripe
              /\ (target # "NULL" /\ ~waits) =>
                    /\ stripe'.calls.scheduled_swap = stripe.calls.scheduled_swap + 1
                    /\ modify_ok =>
                          /\ stripe'.subscriptions[sid].price = target
                          /\ stripe'.subscriptions[sid].proration_behavior = "none"
                          /\ PendingTarget(db', sid) = "NULL"
                    /\ ~modify_ok =>
                          /\ stripe'.subscriptions = stripe.subscriptions
                          /\ PendingTarget(db', sid) = target
              /\ target = "NULL" => stripe' = stripe]_vars

\* the downgrade to price_3m was scheduled, the event with cancel_at_period_end
\* = true and both renewal events have been handled: one swap was issued,
\* Stripe holds the target price without proration and the row is gone
C11_Witness ==
    /\ {evt_sub_cancel_pending.id, evt_sub_updated.id, evt_sub_renewed.id}
          \subseteq db.billing_events
    /\ \A d \in Slots : Free(d)
    /\ stripe.calls.scheduled_swap = 1
    /\ stripe.subscriptions["sub_a"].price = "price_3m"
    /\ stripe.subscriptions["sub_a"].proration_behavior = "none"
    /\ PendingTarget(db, "sub_a") = "NULL"
    /\ \E r \in BagToSet(db.payment_audit) : r.action = "scheduled_downgrade_applied"

-----------------------------------------------------------------------------
(* Checkouts and the first events of a subscription (SpecOnboarding)       *)

\* the checkout session whose completion Stripe reports for customer cust
CheckoutSessionOfCustomer(cust) ==
    LET hit == {e \in StripeEventCatalogue :
                   e.type = "checkout.session.completed" /\ e.data.customer = cust}
    IN  IF hit = {} THEN "NULL" ELSE (CHOOSE e \in hit : TRUE).data.id

\* C12: when an invoice.paid event names a subscription with no local row
\* and the customer of a checkout session this service created for actor A,
\* the webhook leaves a Subscription row for it with billing contact A and
\* the Invoice row attached to that subscription.
C12_InvoiceCreatesSkeleton ==
    [][\A d \in Slots : IsStripeHandleStep(d) =>
          LET e == StripeEventById(deliveries[d].event)
              sid == e.data.subscription
              A == CheckoutActorBySession(db, CheckoutSessionOfCustomer(e.data.customer))
          IN  (e.type = "invoice.paid" /\ sid \notin DOMAIN db.subscriptions /\ A # "NULL")
              => /\ sid \in DOMAIN db'.subscriptions
                 /\ db'.subscriptions[sid].billing_contact_user_id = A
                 /\ e.data.id \in DOMAIN db'.invoices
                 /\ db'.invoices[e.data.id].subscription_id = sid]_vars

\* C13: when a checkout.session.completed event names a session with a
\* CheckoutRecord and a subscription, the subscription has a row afterwards:
\* a row created by the event has created_by and billing_contact_user_id
\* equal to the record's actor, and a row that existed before keeps the
\* created_by and billing_contact_user_id it had.
C13_CheckoutCompletedLinksActor ==
    [][\A d \in Slots : IsStripeHandleStep(d) =>
          LET e == StripeEventById(deliveries[d].event)
              sid == e.data.subscription
              A == CheckoutActorBySession(db, e.data.id)
          IN  (e.type = "checkout.session.completed" /\ sid # "NULL" /\ A # "NULL")
              => /\ sid \in DOMAIN db'.subscriptions
                 /\ IF sid \in DOMAIN db.subscriptions
                    THEN /\ db'.subscriptions[sid].created_by = db.subscriptions[sid].created_by
                         /\ db'.subscriptions[sid].billing_contact_user_id =
                               db.subscriptions[sid].billing_contact_user_id
                    ELSE /\ db'.subscriptions[sid].created_by = A
                         /\ db'.subscriptions[sid].billing_contact_user_id = A]_vars

\* both completions were handled, the sessions belong to different actors,
\* and the row still names the first
C13_Witness ==
    /\ {"evt_checkout", "evt_checkout_other"} \subseteq db.billing_events
    /\ \A d \in Slots : deliveries[d].pc = "done" /\ deliveries[d].resp = "success"
    /\ CheckoutActorBySession(db, "cs_1") = "u1"
    /\ CheckoutActorBySession(db, "cs_2") = "u2"
    /\ "sub_a" \in DOMAIN db.subscriptions
    /\ db.subscriptions["sub_a"].created_by = "u1"
    /\ db.subscriptions["sub_a"].billing_contact_user_id = "u1"

-----------------------------------------------------------------------------
(* Webhook signatures (SpecSigned)                                          *)

\* C14: a Stripe request without a stripe-signature header or whose header
\* fails verification, and a Paddle request without a Paddle-Signature
\* header or whose header fails verification, is answered with HTTP 400 and
\* changes no stored state.
C14_BadSignatureRejected ==
    [][/\ \A d \in Slots, e \in {evt_checkout}, parse_ok \in BOOLEAN :
            \A header \in SignatureHeaders(e.id, now, "whsec_stripe") :
               ( /\ StripeWebhookRequest(d, e, header, parse_ok)
                 /\ \/ ~header.present
                    \/ construct_event(e.id, header, "whsec_stripe", now, parse_ok)
                          = "SignatureVerificationError" )
               => (deliveries'[d].resp = "error_400" /\ db' = db /\ stripe' = stripe)
       /\ \A d \in Slots, e \in {pevt_sub_activated}, parse_ok \in BOOLEAN :
            \A header \in PaddleSignatureHeaders(e.id, now, "whsec_paddle") :
               ( /\ PaddleWebhookRequest(d, e, header, "whsec_paddle", parse_ok)
                 /\ \/ header = << >>
                    \/ header[2].sig # Hmac("whsec_paddle", header[1].text, e.id)
                    \/ header[1].text = ToString(now - SignatureTolerance - 1) )
               => (deliveries'[d].resp = "error_400" /\ db' = db /\ stripe' = stripe)
      ]_vars

\* a request was rejected on each endpoint after events had been stored
C14_Witness ==
    /\ deliveries[1].endpoint = "stripe" /\ deliveries[1].resp = "error_400"
    /\ deliveries[2].endpoint = "paddle" /\ deliveries[2].resp = "error_400"
    /\ db.billing_events # {}

-----------------------------------------------------------------------------
(* Checkout creation (SpecCheckout)                                         *)

\* the step in which request c runs up to provider.create_checkout
IsCheckoutRequestStep(c) == checkouts[c].pc = "idle" /\ checkouts'[c].pc # "idle"

CheckoutAuditActions == {"create_stripe_checkout", "create_paddle_checkout"}

\* the payment_audit rows of a checkout
CheckoutAudits(dbv) == {a \in BagToSet(dbv.payment_audit) : a.action \in CheckoutAuditActions}

\* the request is refused with resp before the provider is asked, and neither
\* a CheckoutRecord nor a checkout audit row is written
RefusedUnwritten(c, resp) ==
    /\ checkouts'[c].pc = "done"
    /\ checkouts'[c].resp = resp
    /\ ~checkouts'[c].provider_called
    /\ db'.checkout_records = db.checkout_records
    /\ CheckoutAudits(db') = CheckoutAudits(db)

RecordsOf(dbv, id) == {i \in DOMAIN dbv.checkout_records : dbv.checkout_records[i].session_id = id}
AuditsOf(dbv, id) == {a \in CheckoutAudits(dbv) : a.session_id = id}

\* C16: a step writes a CheckoutRecord exactly when it writes a checkout
\* audit row, one of each, and only for a request whose provider call has
\* returned a session; a finished successful request has exactly one row of
\* each kind for its session.  When the provider call raises, the request
\* ends with the ProviderError's status code, or 500 for another exception,
\* and the step writes neither row.
C16_RecordAndAuditTogether ==
    [][/\ LET records == Len(db'.checkout_records) - Len(db.checkout_records)
              audits == BagCardinality(db'.payment_audit) - BagCardinality(db.payment_audit)
              checkout_audits == Cardinality(CheckoutAudits(db')) - Cardinality(CheckoutAudits(db))
          IN  /\ records \in {0, 1} /\ checkout_audits = records
              /\ records = 1 =>
                    /\ audits = 1
                    /\ \E c \in CheckoutSlots :
                          /\ checkouts[c].pc = "created" /\ checkouts[c].provider_called
                          /\ checkouts'[c].pc = "done" /\ checkouts'[c].resp = "success"
                          /\ RecordsOf(db, checkouts[c].session.id) = {}
                          /\ Cardinality(RecordsOf(db', checkouts[c].session.id)) = 1
                          /\ Cardinality(AuditsOf(db', checkouts[c].session.id)) = 1
       /\ \A c \in CheckoutSlots : IsCheckoutRequestStep(c) =>
             /\ db'.checkout_records = db.checkout_records
             /\ CheckoutAudits(db') = CheckoutAudits(db)
             /\ checkouts'[c].raised = "provider_error_400" => checkouts'[c].resp = "error_400"
             /\ checkouts'[c].raised = "provider_error_502" => checkouts'[c].resp = "error_502"
             /\ checkouts'[c].raised = "exception" => checkouts'[c].resp = "error_500"
             /\ checkouts'[c].raised # "NULL" => checkouts'[c].pc = "done"
             /\ (checkouts'[c].provider_called /\ checkouts'[c].raised = "NULL")
                   => checkouts'[c].pc = "created"
      ]_vars

\* one request was stored with its audit row and another failed at the
\* provider with status 502
C16_Witness ==
    /\ Len(db.checkout_records) = 1
    /\ Cardinality(CheckoutAudits(db)) = 1
    /\ \E c \in CheckoutSlots : checkouts[c].pc = "done" /\ checkouts[c].resp = "success"
    /\ \E c \in CheckoutSlots :
          /\ checkouts[c].pc = "done" /\ checkouts[c].raised = "provider_error_502"
          /\ checkouts[c].resp = "error_502"

-----------------------------------------------------------------------------
(* Subscription status                                                      *)

SubscriptionStatuses == {"pending", "active", "inactive", "canceled"}

\* C17: the status of every Subscription row is pending, active, inactive
\* or canceled.
C17_StatusInDomain ==
    \A sid \in DOMAIN db.subscriptions : db.subscriptions[sid].status \in SubscriptionStatuses

\* C18: a Subscription row with status canceled keeps that status in every
\* later step.
C18_CanceledIsTerminal ==
    [][\A sid \in DOMAIN db.subscriptions :
          db.subscriptions[sid].status = "canceled" =>
             db'.subscriptions[sid].status = "canceled"]_vars

\* the other Subscription rows with the billing contact of row sid
OtherRowsOfContact(subs, sid) ==
    {o \in DOMAIN subs \ {sid} :
        subs[o].billing_contact_user_id = subs[sid].billing_contact_user_id}

\* C19: when a Stripe webhook has reconciled a subscription, or a Paddle
\* subscription event has stored an active subscription with its period and
\* plan, every other Subscription row of the same billing contact has status
\* inactive.
C19_OneActivePerContact ==
    [][/\ \A d \in Slots :
            (IsStripeHandleStep(d) /\ deliveries'[d].reconciled # "NULL") =>
               \A o \in OtherRowsOfContact(db'.subscriptions, deliveries'[d].reconciled) :
                  db'.subscriptions[o].status = "inactive"
       /\ \A d \in Slots :
            ( /\ deliveries[d].endpoint = "paddle" /\ deliveries[d].pc = "recorded"
              /\ deliveries'[d].pc = "done"
              /\ PaddleEventById(deliveries[d].event).type = "subscription.activated" ) =>
               LET sid == PaddleEventById(deliveries[d].event).data.id
               IN  \A o \in OtherRowsOfContact(db'.subscriptions, sid) :
                      db'.subscriptions[o].status = "inactive"
      ]_vars

-----------------------------------------------------------------------------
(* Concurrent creation of the skeleton row (SpecRace)                       *)

\* C20: however the statements of concurrent handlers interleave, an external
\* subscription id never has more than one row; a handler that has run its
\* INSERT and finished has resolved the id of that row, and every finished
\* handler that resolved an id for the external id resolved the same one.
C20_OneRowPerExternalId ==
    \A key \in {"sub_a", "psub_1"} :
       LET rows == {r \in skeleton.rows : r.key = key}
           finished == {h \in Racers : skeleton.racers[h].pc = "done"
                                         /\ skeleton.racers[h].key = key}
       IN  /\ Cardinality(rows) <= 1
           /\ \A h \in finished :
                 /\ skeleton.racers[h].inserted =>
                       /\ Cardinality(rows) = 1
                       /\ skeleton.racers[h].resolved # NoInt
                 /\ skeleton.racers[h].resolved # NoInt =>
                       \E r \in rows : r.id = skeleton.racers[h].resolved

\* three handlers of one Stripe subscription each found no row and then ran
\* their INSERT, for two different actors; one row is left
C20_Witness ==
    /\ \A h \in Racers : /\ skeleton.racers[h].pc = "done"
                          /\ skeleton.racers[h].inserted
                          /\ skeleton.racers[h].key = "sub_a"
    /\ \E h \in Racers : skeleton.racers[h].actor = "u2"
    /\ \E h \in Racers : skeleton.racers[h].actor = "u1"
    /\ skeleton.next_id = MaxRacers + 1
    /\ Cardinality(skeleton.rows) = 1

-----------------------------------------------------------------------------
(* Concurrent downgrade requests (SpecDowngradeRace)                        *)

\* C21: a subscription never has more than one ScheduledDowngrade row, and a
\* step of a downgrade request leaves the provider as it was.
C21_OneScheduledDowngrade ==
    /\ [](\A i \in DOMAIN db.scheduled_downgrades, j \in DOMAIN db.scheduled_downgrades :
            db.scheduled_downgrades[i].subscription_id =
               db.scheduled_downgrades[j].subscription_id => i = j)
    /\ [][downgrades' # downgrades => stripe' = stripe]_vars

-----------------------------------------------------------------------------
(* C22: cancellation at the end of the cycle                                *)

CycleEndAudits(dbv) ==
    BagCardinality([a \in {b \in BagToSet(dbv.payment_audit) : b.action = "cancel_at_cycle_end"} |->
        CopiesIn(a, dbv.payment_audit)])

\* C22: a cycle-end cancel request that reads a subscription whose local
\* cancel_at_period_end is already true answers with the existing state and
\* makes no provider call, no store write and no PaymentAudit row; a request
\* that reads the flag false calls the provider once, and then either the
\* call failed, the request is answered with an error and nothing is written,
\* or the flag is set and exactly one cancel_at_cycle_end audit row is added.
C22_CycleEndIdempotent ==
    [][\A c \in CancelSlots :
        /\ ( /\ cancels[c].pc = "idle" /\ cancels'[c].pc # "idle"
             /\ cancels'[c].sid # "NULL"
             /\ db.subscriptions[cancels'[c].sid].cancel_at_period_end )
           => /\ cancels'[c].pc = "done" /\ cancels'[c].resp = CycleEndResponse
              /\ db' = db /\ stripe' = stripe
        /\ ( cancels[c].pc = "idle" /\ cancels'[c].pc = "cycle_read" )
           => /\ ~db.subscriptions[cancels'[c].sid].cancel_at_period_end
              /\ db' = db /\ stripe' = stripe
        /\ ( cancels[c].pc = "cycle_read" /\ cancels'[c].pc # "cycle_read" )
           => /\ stripe'.calls.subscription_modify = stripe.calls.subscription_modify + 1
              /\ db' = db
              /\ cancels'[c].pc \in {"cycle_called", "done"}
              /\ cancels'[c].pc = "done" => cancels'[c].resp.status = "error_400"
        /\ ( cancels[c].pc = "cycle_called" /\ cancels'[c].pc # "cycle_called" )
           => /\ stripe' = stripe
              /\ cancels'[c].pc = "done" /\ cancels'[c].resp = CycleEndResponse
              /\ db'.subscriptions[cancels[c].sid].cancel_at_period_end
              /\ db' = Audit([db EXCEPT !.subscriptions[cancels[c].sid].cancel_at_period_end = TRUE],
                             "u1", "cancel_at_cycle_end", cancels[c].sid, <<cancels[c].sid>>)
              /\ CycleEndAudits(db') = CycleEndAudits(db) + 1
      ]_vars

\* one request set the flag with one provider call and one audit row, and a
\* later request found the flag set and was answered without a second call
C22_Witness ==
    /\ \A c \in CancelSlots : cancels[c].pc = "done" /\ cancels[c].resp = CycleEndResponse
    /\ stripe.calls.subscription_modify = 1
    /\ CycleEndAudits(db) = 1
    /\ db.subscriptions["sub_a"].cancel_at_period_end

-----------------------------------------------------------------------------
(* C23: failures after the ledger entry                                     *)

\* C23: once a delivery has passed verification and its event is recorded in
\* the ledger, whatever fails in the handler the webhook answers HTTP 200
\* with a success body, on both endpoints.
C23_HandlerFailuresAnswered ==
    [][\A d \in Slots :
          (deliveries[d].pc = "recorded" /\ deliveries'[d].pc = "done")
             => deliveries'[d].resp \in {"success", "ok"}]_vars

-----------------------------------------------------------------------------
(* C24: verify_paddle_signature (SpecSignature)                             *)

\* the header carries a timestamp within the tolerance of clock and a digest
\* equal to the HMAC of that timestamp and raw under secret
FreshAndSigned(raw, header, secret, clock) ==
    \E i \in DOMAIN header :
       /\ header[i].k = "ts"
       /\ \E n \in TimestampValues :
             /\ ToString(n) = header[i].text
             /\ n - clock <= SignatureTolerance /\ clock - n <= SignatureTolerance
       /\ \E j \in DOMAIN header :
             header[j].k = "h1" /\ header[j].sig = Hmac(secret, header[i].text, raw)

\* C24: verify_paddle_signature accepts exactly when the header carries a
\* timestamp within 300 seconds of the current time and at least one h1
\* digest equal to HMAC-SHA256(secret, "{ts}:{raw_body}"); an empty body,
\* header or secret, a timestamp that is no number and a replay after the
\* window are rejected.
C24_SignatureVerified ==
    verification.called =>
       LET v == verification
       IN  /\ v.accepted <=> ( /\ v.raw # "" /\ v.header # << >> /\ v.secret # ""
                               /\ FreshAndSigned(v.raw, v.header, v.secret, v.clock) )
           /\ (v.raw = "" \/ v.header = << >> \/ v.secret = "") => ~v.accepted
           /\ (\E i \in DOMAIN v.header : v.header[i].k = "ts" /\ v.header[i].text = "soon")
                 => ~v.accepted
           /\ (\E i \in DOMAIN v.header :
                  /\ v.header[i].k = "ts"
                  /\ v.header[i].text = ToString(v.clock - SignatureTolerance - 1))
                 => ~v.accepted

\* a header sent 300 seconds ago with two digests, the second made with the
\* secret, was accepted
C24_Witness ==
    /\ verification.called /\ verification.accepted
    /\ Len(verification.header) = 3
    /\ verification.header[1].text = ToString(verification.clock - SignatureTolerance)
    /\ verification.header[2].sig # verification.header[3].sig

-----------------------------------------------------------------------------
(* C25: calculate_tax (SpecTax)                                             *)

\* t is base * rate rounded to the nearest integer, a half rounded up:
\* t - 1/2 <= base * rate < t + 1/2
IsRoundHalfUp(t, base, rate) ==
    LET scale == 10 ^ rate.exponent
    IN  /\ 2 * scale * t <= 2 * base * rate.digits + scale
        /\ 2 * base * rate.digits + scale < 2 * scale * (t + 1)

\* C25: for a non-negative base and rate, tax_cents is base * rate rounded
\* half up, subtotal_cents is the base and total_cents is subtotal plus tax;
\* 1000 cents at 2% give a tax of 20 and a total of 1020; and a stored
\* checkout record carries as its amount the total for the plan's price.
C25_TaxRoundedHalfUp ==
    /\ taxed.called =>
          /\ IsRoundHalfUp(taxed.details.tax_cents, taxed.base_amount_cents, taxed.rate)
          /\ taxed.details.subtotal_cents = taxed.base_amount_cents
          /\ taxed.details.total_cents = taxed.details.subtotal_cents + taxed.details.tax_cents
          /\ (taxed.base_amount_cents = 1000 /\ taxed.rate = Rate(2, 2))
                => (taxed.details.tax_cents = 20 /\ taxed.details.total_cents = 1020)
    /\ \A c \in CheckoutSlots :
          (checkouts[c].pc = "done" /\ checkouts[c].resp = "success") =>
             \E i \in DOMAIN db.checkout_records :
                LET record == db.checkout_records[i]
                    price == PlanPrice(checkouts[c].payload.planId, checkouts[c].payload.interval)
                IN  /\ record.session_id = checkouts[c].session.id
                    /\ IsRoundHalfUp(record.amount - price, price, TAX_DEFAULT_RATE)

\* the tax of 25 cents at 2% is one half of a cent and was rounded up to
\* one cent, and a monthly checkout of plan p1 was stored with amount 1020
C25_Witness ==
    /\ taxed.called /\ taxed.base_amount_cents = 25 /\ taxed.rate = Rate(2, 2)
    /\ taxed.details.tax_cents = 1
    /\ \E c \in CheckoutSlots :
          /\ checkouts[c].pc = "done" /\ checkouts[c].resp = "success"
          /\ checkouts[c].payload.planId = "p1" /\ checkouts[c].payload.interval = "monthly"
          /\ \E i \in DOMAIN db.checkout_records :
                /\ db.checkout_records[i].session_id = checkouts[c].session.id
                /\ db.checkout_records[i].amount = 1020

-----------------------------------------------------------------------------
(* C26: refunds of retried cancellations (SpecRetry)                        *)

\* C26: over any sequence of immediate-cancel attempts for a subscription,
\* the provider creates at most one refund.
C26_AtMostOneRefund == Cardinality(stripe.refunds) <= 1

-----------------------------------------------------------------------------
(* C27: a refund that fails after the provider-side cancel (SpecRetry)      *)

\* C27: when the provider-side cancel went through and the refund call then
\* fails, the request is answered with an error and nothing is committed
\* locally: the subscription row keeps its status, cancel_at_period_end and
\* current_period_end, and no CancellationRequest or PaymentAudit row is added.
C27_FailedRefundCommitsNothing ==
    [][\A c \in CancelSlots, listing \in ListOutcomes, delete_ok \in BOOLEAN :
          ( /\ CancelProvider(c, listing, delete_ok, FALSE)
            /\ stripe'.calls.refund_create = stripe.calls.refund_create + 1 )
          => /\ cancels'[c].pc = "done"
             /\ cancels'[c].resp.status = "error_400"
             /\ db'.subscriptions = db.subscriptions
             /\ db'.cancellation_requests = db.cancellation_requests
             /\ db'.payment_audit = db.payment_audit
      ]_vars

\* the subscription is canceled at the provider, the only refund call made
\* has failed, the request was answered with an error and the stored
\* subscription is as it was
C27_Witness ==
    /\ stripe.subscriptions["sub_a"].status = "canceled"
    /\ stripe.calls.refund_create = 1 /\ stripe.refunds = {}
    /\ \E c \in CancelSlots : cancels[c].pc = "done" /\ cancels[c].resp.status = "error_400"
    /\ \A c \in CancelSlots : cancels[c].pc \in {"idle", "done"}
    /\ db.subscriptions["sub_a"].status = "active"
    /\ db.subscriptions["sub_a"].current_period_end = MaxTime
    /\ db.cancellation_requests = EmptyBag

-----------------------------------------------------------------------------
(* C28, C29: the refund of an immediate cancellation (SpecRefund)           *)

\* C28: when a positive refund is owed and the latest paid invoice carries no
\* payment-intent reference, no refund call is made, the refund amount
\* recorded and returned is 0 with refunded = false, and the cancellation
\* completes: status canceled, cancel_at_period_end false, current_period_end
\* the time of the cancellation, one CancellationRequest row.
C28_NoIntentNoRefund ==
    [][\A c \in CancelSlots :
        /\ ( /\ cancels[c].pc = "looked" /\ cancels'[c].pc = "called"
             /\ cancels'[c].owed > 0 /\ cancels'[c].payment_intent_id = "NULL" )
           => /\ stripe'.calls.refund_create = stripe.calls.refund_create
              /\ stripe'.refunds = stripe.refunds
              /\ cancels'[c].refund_amount = 0
              /\ cancels'[c].refund_id = "NULL"
        /\ ( /\ cancels[c].pc = "called" /\ cancels'[c].pc # "called"
             /\ cancels[c].owed > 0 /\ cancels[c].payment_intent_id = "NULL" )
           => /\ cancels'[c].pc = "done" /\ cancels'[c].resp.status = "ok"
              /\ cancels'[c].resp.refund_amount_cents = 0
              /\ ~Refunded(cancels'[c].resp)
              /\ cancels'[c].resp.stripe_refund_id = "NULL"
              /\ db'.subscriptions[cancels[c].sid].status = "canceled"
              /\ ~db'.subscriptions[cancels[c].sid].cancel_at_period_end
              /\ db'.subscriptions[cancels[c].sid].current_period_end = now
              /\ BagCardinality(db'.cancellation_requests)
                    = BagCardinality(db.cancellation_requests) + 1
              /\ \E row \in BagToSet(db'.cancellation_requests) :
                    /\ CopiesIn(row, db'.cancellation_requests)
                          = CopiesIn(row, db.cancellation_requests) + 1
                    /\ row.subscription_id = cancels[c].sid /\ row.mode = "immediate"
                    /\ row.refund_amount_cents = 0 /\ row.stripe_refund_id = "NULL"
              /\ stripe' = stripe
      ]_vars

\* a full refund of the 1020 cents paid was owed on an invoice without a
\* payment intent; the cancellation is stored with amount 0 and no refund
\* call was made
C28_Witness ==
    /\ stripe.invoices["sub_a"] = <<StripeUnlinkedInvoice>>
    /\ stripe.calls.refund_create = 0
    /\ cancels[1].pc = "done" /\ cancels[1].resp.status = "ok"
    /\ cancels[1].resp.refund_mode = "full" /\ cancels[1].resp.refund_amount_cents = 0
    /\ db.subscriptions["sub_a"].status = "canceled"
    /\ BagCardinality(db.cancellation_requests) = 1

\* amount_paid of the invoice with the given id ("NULL": no invoice, 0)
AmountPaidOf(invoices, invoice_id) ==
    LET hit == {i \in DOMAIN invoices : invoices[i].id = invoice_id}
    IN  IF hit = {} THEN 0 ELSE invoices[CHOOSE i \in hit : TRUE].amount_paid

\* the lookup finds no invoice, or one that is not paid
NoPaidInvoiceFound(invoices, listing) ==
    \/ listing = "failed"
    \/ invoices = << >>
    \/ listing = "unfiltered" /\ invoices[1].status # "paid"
    \/ listing = "filtered" /\ \A i \in DOMAIN invoices : invoices[i].status # "paid"

\* C29: the refund owed is amount_paid of the latest paid invoice in mode
\* full, 0 in mode none and for a missing or unrecognised mode, and the
\* prorated amount in mode prorated; it is 0 whenever the lookup finds no
\* invoice or one that is not paid; and always 0 <= refund <= amount_paid.
C29_RefundPerMode ==
    [][\A c \in CancelSlots :
        /\ \A refund \in RefundInputs \cup {"partial"} :
              ( /\ CancelStart(c, "u1", refund) /\ cancels'[c].pc = "looked"
                /\ refund \notin {"full", "prorated"} )
              => cancels'[c].refund_mode = "none"
        /\ ( cancels[c].pc = "looked" /\ cancels'[c].pc = "called" )
           => LET req == cancels'[c]
                  amount_paid == AmountPaidOf(stripe.invoices[req.sid], req.invoice_id)
                  call == [amount |-> amount_paid, period_start |-> req.period_start,
                           period_end |-> req.period_end, utcnow |-> now]
              IN  /\ req.refund_mode = "full" => req.owed = amount_paid
                  /\ req.refund_mode = "none" => req.owed = 0
                  /\ req.refund_mode = "prorated" =>
                        IF ProrationZeroCase(call) THEN req.owed = 0
                        ELSE req.owed \in {Min(ProrationFloor(call), amount_paid) - 1,
                                           Min(ProrationFloor(call), amount_paid)}
                  /\ req.invoice_id = "NULL" => req.owed = 0
                  /\ 0 <= req.owed /\ req.owed <= amount_paid
                  /\ 0 <= req.refund_amount /\ req.refund_amount <= amount_paid
        /\ \A listing \in ListOutcomes, delete_ok \in BOOLEAN, refund_ok \in BOOLEAN :
              ( /\ CancelProvider(c, listing, delete_ok, refund_ok)
                /\ cancels'[c].pc = "called"
                /\ NoPaidInvoiceFound(stripe.invoices[cancels[c].sid], listing) )
              => cancels'[c].owed = 0 /\ cancels'[c].invoice_id = "NULL"
      ]_vars

\* with an open invoice newer than the paid one, one request took the paid
\* invoice and owes a prorated part of it after a third of the period, and
\* another, whose lookup fell back to the unfiltered list, owes nothing
C29_Witness ==
    /\ stripe.invoices["sub_a"] = <<StripeOpenInvoice, StripePaidInvoice>>
    /\ now = 1
    /\ \E c \in CancelSlots :
          /\ cancels[c].pc = "called" /\ cancels[c].refund_mode = "prorated"
          /\ cancels[c].invoice_id = StripePaidInvoice.id
          /\ cancels[c].owed > 0 /\ cancels[c].owed < StripePaidInvoice.amount_paid
    /\ \E c \in CancelSlots :
          /\ cancels[c].pc = "called" /\ cancels[c].refund_mode = "full"
          /\ cancels[c].owed = 0 /\ cancels[c].invoice_id = "NULL"

-----------------------------------------------------------------------------
(* C30: when a scheduled downgrade is consumed (SpecDowngrade)              *)

\* C30: a customer.subscription.updated event that arrives within the
\* billing period in which the downgrade was requested (its period start is
\* the one the subscription row holds) neither issues the swap nor deletes
\* the ScheduledDowngrade row.
C30_ConsumedOnlyOnRenewal ==
    [][\A d \in Slots, modify_ok \in BOOLEAN, retrieve_ok \in BOOLEAN :
          StripeHandle(d, modify_ok, retrieve_ok) =>
          LET e == StripeEventById(deliveries[d].event)
              sid == e.data.id
          IN  ( /\ e.type = "customer.subscription.updated"
                /\ PendingTarget(db, sid) # "NULL"
                /\ e.data.current_period_start = db.subscriptions[sid].current_period_start )
              => /\ stripe'.calls.scheduled_swap = stripe.calls.scheduled_swap
                 /\ db'.scheduled_downgrades = db.scheduled_downgrades]_vars

-----------------------------------------------------------------------------
(* Reconciling against a price no plan has (SpecReprice)                    *)

\* C31: a Stripe event handled while the subscription's price at Stripe is the
\* price id of no plan is answered with success and leaves the plan_id and
\* the interval of every stored subscription that had a plan as they were.
C31_UnmatchedPriceKeepsPlan ==
    [][\A d \in Slots :
          (/\ IsStripeHandleStep(d)
           /\ \E sid \in DOMAIN stripe.subscriptions :
                 PlanIdByPrice(stripe.subscriptions[sid].price) = "NULL")
          => /\ deliveries'[d].resp = "success"
             /\ \A sid \in DOMAIN db.subscriptions :
                   db.subscriptions[sid].plan_id # "NULL"
                   => /\ db'.subscriptions[sid].plan_id = db.subscriptions[sid].plan_id
                      /\ db'.subscriptions[sid].interval = db.subscriptions[sid].interval]_vars

-----------------------------------------------------------------------------
(* Paddle events without custom data (SpecPaddle)                           *)

\* the event carries no interval, no plan id and no actor in its custom data
HasNoContext(e) ==
    /\ e.data.cd_interval = "NULL"
    /\ e.data.cd_plan_id = "NULL"
    /\ e.data.cd_actor_id = "NULL"

\* C32: a Paddle subscription event without interval, plan id and actor in
\* its custom data, handled when the subscription's row exists, leaves the
\* interval, the plan_id and the billing_contact_user_id of the row as they
\* were.
C32_BareEventKeepsContext ==
    [][\A d \in Slots :
          IsPaddleHandleStep(d) =>
             LET e == PaddleEventById(deliveries[d].event)
                 psid == e.data.id
             IN  (/\ IsPaddleSubscriptionEvent(e.type)
                  /\ HasNoContext(e)
                  /\ PaddleSubDbId(db, psid) # "NULL")
                 => /\ db'.subscriptions[psid].interval = db.subscriptions[psid].interval
                    /\ db'.subscriptions[psid].plan_id = db.subscriptions[psid].plan_id
                    /\ db'.subscriptions[psid].billing_contact_user_id
                          = db.subscriptions[psid].billing_contact_user_id]_vars

-----------------------------------------------------------------------------
(* Paddle transaction events and the subscription row (SpecTransactions)    *)

\* C33: a Paddle transaction.* event leaves every stored subscription row as
\* it was, except that it may set the paddle_customer_id of the row of its
\* subscription when that was null; when the row of its subscription is
\* missing and the event is answered ok, the row exists afterwards with status
\* pending.
C33_TransactionLeavesSubscription ==
    [][\A d \in Slots :
          IsPaddleHandleStep(d) =>
             LET e == PaddleEventById(deliveries[d].event)
                 psid == e.data.subscription_id
             IN  IsPaddleTransactionEvent(e.type) =>
                    /\ \A sid \in DOMAIN db.subscriptions :
                          /\ db'.subscriptions[sid] =
                                [db.subscriptions[sid] EXCEPT !.paddle_customer_id =
                                    db'.subscriptions[sid].paddle_customer_id]
                          /\ \/ db'.subscriptions[sid].paddle_customer_id
                                   = db.subscriptions[sid].paddle_customer_id
                             \/ /\ sid = psid
                                /\ db.subscriptions[sid].paddle_customer_id = "NULL"
                    /\ (/\ psid # "NULL"
                        /\ psid \notin DOMAIN db.subscriptions
                        /\ deliveries'[d].resp = "ok")
                       => /\ psid \in DOMAIN db'.subscriptions
                          /\ db'.subscriptions[psid].status = "pending"]_vars

\* the active subscription holds the customer id of its first payment after a
\* payment billed to another customer id has been stored
C33_Witness ==
    /\ "psub_1" \in DOMAIN db.subscriptions
    /\ db.subscriptions["psub_1"].status = "active"
    /\ db.subscriptions["psub_1"].paddle_customer_id = "ctm_1"
    /\ "txn_2" \in DOMAIN db.invoices

-----------------------------------------------------------------------------
(* PUT /subscription: upgrade, downgrade and cycle switch (SpecCycle)       *)

\* the scheduled_downgrades rows of a subscription
DowngradeRows(dbv, sid) ==
    {i \in DOMAIN dbv.scheduled_downgrades : dbv.scheduled_downgrades[i].subscription_id = sid}

\* the subscription has a stored row whose billing contact has an organization
KnownSubscription(dbv, sid) ==
    /\ SubDbId(dbv, sid) # "NULL"
    /\ UserOrg(dbv.subscriptions[sid].billing_contact_user_id) # "NULL"

\* C34 as stated: a cycle switch to the price of the current interval, or to
\* a price that is not one of the current plan's two, is answered with HTTP
\* 400 without a provider call or a write; a switch from monthly to yearly
\* calls Subscription.modify with immediate proration and leaves
\* scheduled_downgrades as it was; a switch from yearly to monthly calls
\* nothing at the provider and leaves exactly one scheduled_downgrades row for
\* the subscription, naming the new price.
C34_AsStated ==
    [][\A price \in CyclePrices, outcome \in UpgradeOutcomes :
          CycleSwitch("sub_a", price, outcome) =>
             LET current_price == stripe.subscriptions["sub_a"].price
                 plan == PlanIdByPrice(current_price)
                 monthly == SubscriptionPlan[plan].stripe_price_id_monthly
                 yearly == SubscriptionPlan[plan].stripe_price_id_yearly
             IN  plan # "NULL" =>
                    /\ (price = current_price \/ price \notin {monthly, yearly})
                       => /\ upgrade'.resp = "error_400"
                          /\ ~upgrade'.called
                          /\ db' = db
                          /\ stripe' = stripe
                    /\ (current_price = monthly /\ price = yearly /\ monthly # yearly)
                       => /\ upgrade'.called
                          /\ db' = db
                          /\ outcome = "ok"
                             => /\ upgrade'.pc = "persist"
                                /\ stripe'.subscriptions["sub_a"].price = yearly
                                /\ stripe'.subscriptions["sub_a"].proration_behavior
                                      = "always_invoice"
                    /\ (current_price = yearly /\ price = monthly /\ monthly # yearly)
                       => /\ ~upgrade'.called
                          /\ stripe' = stripe
                          /\ Cardinality(DowngradeRows(db', "sub_a")) = 1
                          /\ db'.scheduled_downgrades[
                                PendingDowngrade(db'.scheduled_downgrades, "sub_a")
                             ].target_price_id = monthly]_vars
    /\ [][UpgradePersist => db'.scheduled_downgrades = db.scheduled_downgrades]_vars

\* C34, amended: a cycle switch to the price of the current interval, or to a price
\* that is not one of the current plan's two, is answered with HTTP 400
\* without a provider call or a write; a switch from monthly to yearly calls
\* Subscription.modify with immediate proration and leaves scheduled_downgrades
\* as it was; a switch from yearly to monthly calls nothing at the provider
\* and, for a subscription the service has stored with an organization,
\* leaves exactly one scheduled_downgrades row for it, naming the new price.
C34_CycleSwitchRules ==
    [][\A price \in CyclePrices, outcome \in UpgradeOutcomes :
          CycleSwitch("sub_a", price, outcome) =>
             LET current_price == stripe.subscriptions["sub_a"].price
                 plan == PlanIdByPrice(current_price)
                 monthly == SubscriptionPlan[plan].stripe_price_id_monthly
                 yearly == SubscriptionPlan[plan].stripe_price_id_yearly
             IN  plan # "NULL" =>
                    /\ (price = current_price \/ price \notin {monthly, yearly})
                       => /\ upgrade'.resp = "error_400"
                          /\ ~upgrade'.called
                          /\ db' = db
                          /\ stripe' = stripe
                    /\ (current_price = monthly /\ price = yearly /\ monthly # yearly)
                       => /\ upgrade'.called
                          /\ db' = db
                          /\ outcome = "ok"
                             => /\ upgrade'.pc = "persist"
                                /\ stripe'.subscriptions["sub_a"].price = yearly
                                /\ stripe'.subscriptions["sub_a"].proration_behavior
                                      = "always_invoice"
                    /\ (current_price = yearly /\ price = monthly /\ monthly # yearly)
                       => /\ ~upgrade'.called
                          /\ stripe' = stripe
                          /\ KnownSubscription(db, "sub_a")
                             => /\ upgrade'.resp = "success"
                                /\ Cardinality(DowngradeRows(db', "sub_a")) = 1
                                /\ db'.scheduled_downgrades[
                                      PendingDowngrade(db'.scheduled_downgrades, "sub_a")
                                   ].target_price_id = monthly]_vars
    /\ [][UpgradePersist => db'.scheduled_downgrades = db.scheduled_downgrades]_vars

\* a yearly subscription with a switch to monthly scheduled and answered, its
\* price at Stripe still the yearly one
C34_Witness ==
    /\ stripe.subscriptions["sub_a"].price = "price_1y"
    /\ stripe.subscriptions["sub_a"].proration_behavior = "always_invoice"
    /\ SubDbId(db, "sub_a") # "NULL"
    /\ db.subscriptions["sub_a"].plan_id = "p1"
    /\ PendingDowngrade(db.scheduled_downgrades, "sub_a") # 0
    /\ db.scheduled_downgrades[PendingDowngrade(db.scheduled_downgrades, "sub_a")].target_price_id
          = "price_1m"
    /\ upgrade.pc = "idle"
    /\ upgrade.resp = "success"
    /\ ~upgrade.called

\* C35: a downgrade, requested directly or through a cycle switch from yearly
\* to monthly, for a subscription that has no stored row, or whose billing
\* contact has no organization, is answered with HTTP 400 and writes no
\* scheduled_downgrades row.
C35_UnknownSubscriptionRejected ==
    [][\A price \in DowngradePrices \cup CyclePrices :
          (DowngradeSchedule("sub_a", price) /\ ~KnownSubscription(db, "sub_a"))
          => /\ upgrade'.resp = "error_400"
             /\ db'.scheduled_downgrades = db.scheduled_downgrades]_vars

\* C36: the step of upgrade_subscription_logic that calls the provider writes
\* nothing to the store; when the call is declined for the card the request
\* is answered with HTTP 402, on any other failure with HTTP 500, and no
\* further step of the request follows; the plan_id of the stored subscription
\* changes only in the step that follows a successful call, where Stripe
\* already holds the new price.
C36_PlanWrittenAfterModify ==
    /\ [][\A price \in UpgradePrices \cup CyclePrices, outcome \in UpgradeOutcomes :
             UpgradeModify("sub_a", price, outcome) =>
                /\ db' = db
                /\ upgrade'.called
                /\ outcome = "card_declined" => upgrade'.resp = "error_402"
                /\ outcome \in {"modify_failed", "invoice_failed"}
                      => upgrade'.resp = "error_500"
                /\ outcome # "ok" => upgrade'.pc = "idle"]_vars
    /\ [][(/\ SubDbId(db, "sub_a") # "NULL"
           /\ db'.subscriptions["sub_a"].plan_id # db.subscriptions["sub_a"].plan_id)
          => /\ upgrade.pc = "persist"
             /\ upgrade.called
             /\ stripe.subscriptions["sub_a"].price = upgrade.price
             /\ db'.subscriptions["sub_a"].plan_id = PlanIdByPrice(upgrade.price)]_vars

\* an upgrade has been declined for the card: answered 402, the stored plan
\* and the price at Stripe as before
C36_Witness ==
    /\ upgrade.resp = "error_402"
    /\ upgrade.called
    /\ SubDbId(db, "sub_a") # "NULL"
    /\ db.subscriptions["sub_a"].plan_id = "p1"
    /\ stripe.subscriptions["sub_a"].price = "price_1m"

-----------------------------------------------------------------------------
(* Payment notifications of the Stripe webhook (SpecNotify)                 *)

\* after the step, the subscription the event names is stored and its billing
\* contact belongs to an organization
ContactHasOrg(dbv, sid) ==
    /\ sid \in DOMAIN dbv.subscriptions
    /\ UserOrg(dbv.subscriptions[sid].billing_contact_user_id) # "NULL"

\* C37: a Stripe webhook that handles an event for the first time posts a
\* payment notification with status success for invoice.paid and
\* invoice.payment_succeeded, and with status failed for
\* invoice.payment_failed and invoice.payment_action_required, when the
\* invoice's subscription is stored with a contact that has an organization;
\* it posts none for any other event type; whether or not the POST goes
\* through, the webhook answers success, and with the provider reachable it
\* runs the reconcile block of invoice.paid.
C37_PaymentNotifications ==
    [][\A d \in Slots :
          IsStripeHandleStep(d) =>
             LET e == StripeEventById(deliveries[d].event)
                 posted == deliveries'[d].notified
             IN  /\ deliveries'[d].resp = "success"
                 /\ (e.type \in {"invoice.paid", "invoice.payment_succeeded"}
                       /\ ContactHasOrg(db', e.data.subscription))
                    => posted.status = "success"
                 /\ (e.type \in {"invoice.payment_failed", "invoice.payment_action_required"}
                       /\ ContactHasOrg(db', e.data.subscription))
                    => posted.status = "failed"
                 /\ e.type \notin {"invoice.paid", "invoice.payment_succeeded",
                                   "invoice.payment_failed", "invoice.payment_action_required"}
                    => posted.status = "NULL"
                 /\ posted.delivered => posted.status # "NULL"
                 /\ \A modify_ok \in BOOLEAN :
                       (/\ StripeHandle(d, modify_ok, TRUE)
                        /\ e.type = "invoice.paid"
                        /\ SubDbId(db', e.data.subscription) # "NULL")
                       => deliveries'[d].reconciled = e.data.subscription]_vars

\* invoice.paid has been answered with success and its reconcile block has
\* run although the POST of its notification failed
C37_Witness ==
    \E d \in Slots :
       /\ deliveries[d].pc = "done"
       /\ deliveries[d].resp = "success"
       /\ deliveries[d].notified = [status |-> "success", delivered |-> FALSE]
       /\ deliveries[d].reconciled = "sub_a"
       /\ "evt_invoice_paid" \in db.billing_events
       /\ "evt_invoice_succeeded" \notin db.billing_events

-----------------------------------------------------------------------------
(* A scheduled downgrade and a pending cancellation (SpecStale)             *)

\* C38: a customer.subscription.updated event handled while the stored
\* subscription has cancel_at_period_end set issues no price swap and leaves
\* the cancellation pending at Stripe.
C38_NoSwapWhileCancelling ==
    [][\A d \in Slots :
          IsStripeHandleStep(d) =>
          LET e == StripeEventById(deliveries[d].event)
              sid == e.data.id
          IN  ( /\ e.type = "customer.subscription.updated"
                /\ sid \in DOMAIN db.subscriptions
                /\ db.subscriptions[sid].cancel_at_period_end )
              => /\ stripe'.calls.scheduled_swap = stripe.calls.scheduled_swap
                 /\ stripe'.subscriptions[sid].cancel_at_period_end
                       = stripe.subscriptions[sid].cancel_at_period_end]_vars

-----------------------------------------------------------------------------
(* Late events of a superseded subscription (SpecSuperseded)                *)

\* C39: while only events about the older subscription sub_a arrive, the
\* newer subscription sub_b of the same billing contact stays active and
\* the organization keeps pointing to it.
C39_NewerSubscriptionStays ==
    /\ db.subscriptions["sub_b"].status = "active"
    /\ db.organizations["org1"].subscription_id = "sub_b"

-----------------------------------------------------------------------------
(* C40: when the ScheduledDowngrade row is consumed (SpecDowngrade)         *)

AppliedAudits(dbv) ==
    BagCardinality([a \in {b \in BagToSet(dbv.payment_audit) :
                              b.action = "scheduled_downgrade_applied"} |->
        CopiesIn(a, dbv.payment_audit)])

\* C40: a customer.subscription.updated event handled while a
\* ScheduledDowngrade row is stored deletes the row exactly when it writes one
\* scheduled_downgrade_applied audit row, and then the modify call was issued
\* and has put the subscription on the target price; when the call fails or
\* the payload has no items the rows and the audit trail of applied
\* downgrades are as before and the target is still pending; the webhook
\* answers success in every case.
C40_RowConsumedAfterModify ==
    [][\A d \in Slots :
          IsStripeHandleStep(d) =>
          LET e == StripeEventById(deliveries[d].event)
              sid == e.data.id
              target == PendingTarget(db, sid)
              deleted == db'.scheduled_downgrades # db.scheduled_downgrades
              kept == /\ db'.scheduled_downgrades = db.scheduled_downgrades
                      /\ AppliedAudits(db') = AppliedAudits(db)
                      /\ PendingTarget(db', sid) = target
          IN  (e.type = "customer.subscription.updated" /\ target # "NULL")
              => /\ deliveries'[d].resp = "success"
                 /\ deleted <=> AppliedAudits(db') = AppliedAudits(db) + 1
                 /\ deleted \/ kept
                 /\ deleted => /\ stripe'.calls.scheduled_swap = stripe.calls.scheduled_swap + 1
                               /\ stripe'.subscriptions[sid].price = target
                               /\ PendingTarget(db', sid) = "NULL"
                               /\ \E retrieve_ok \in BOOLEAN : StripeHandle(d, TRUE, retrieve_ok)
                 /\ ~e.data.has_items => kept
                 /\ \A retrieve_ok \in BOOLEAN : StripeHandle(d, FALSE, retrieve_ok) => kept]_vars

\* a first customer.subscription.updated event met a failing modify call and
\* left the row; a later one has applied it
C40_Witness ==
    /\ stripe.calls.scheduled_swap = 2
    /\ db.scheduled_downgrades = << >>
    /\ AppliedAudits(db) = 1
    /\ \A d \in Slots : deliveries[d].pc = "done" /\ deliveries[d].resp = "success"

====
